---------------------------- MODULE Spec2Model ----------------------------
(***************************************************************************)
(* pathfix.py: the shebang-line batch rewriter.                            *)
(*                                                                         *)
(* Byte strings are sequences of one-character strings.  A file name is a  *)
(* byte string, a path is a sequence of file names (os.path.join appends a *)
(* name, os.path.split takes the last one off).  The file system maps the  *)
(* paths that exist to files, directories and symbolic links.              *)
(***************************************************************************)
EXTENDS Naturals, Integers, Sequences, FiniteSets, TLC

VARIABLES
    argv,                 \* [opts, args]: sys.argv[1:] as getopt splits it
    NEW_INTERPRETER,      \* <<>> is None, <<b>> is the byte string b
    PRESERVE_TIMESTAMPS,
    CREATE_BACKUP,
    KEEP_FLAGS,
    ADD_FLAGS,
    pc,                   \* where main is
    optIdx,               \* main: index of the option being read
    argIdx,               \* main: index of the argument being processed
    bad,                  \* main: the failure flag
    exitCode,             \* -1 while running, then the argument of sys.exit
    stack,                \* the recursedown frames, innermost last
    fx,                   \* the frame of the running fix call
    fs,                   \* the file system
    out,                  \* standard output: the rep() lines
    errlog,               \* standard error: the err() lines
    trace,                \* history: the calls of fix and recursedown
    syscalls,             \* history: the OS calls issued
    faults,               \* injected OS failures so far
    probe                 \* the line fixline is applied to (SpecLine)

vars == <<argv, NEW_INTERPRETER, PRESERVE_TIMESTAMPS, CREATE_BACKUP, KEEP_FLAGS,
          ADD_FLAGS, pc, optIdx, argIdx, bad, exitCode, stack, fx, fs, out,
          errlog, trace, syscalls, faults, probe>>

config == <<NEW_INTERPRETER, PRESERVE_TIMESTAMPS, CREATE_BACKUP, KEEP_FLAGS, ADD_FLAGS>>

(***************************************************************************)
(* Bounds of the model.                                                    *)
(***************************************************************************)
\* OS calls that fail for a reason outside the model (permissions, a full
\* disk, an I/O error), per run.
MaxFaults == 1
\* Successive applications of fixline to one line (SpecLine).
MaxApply == 2
\* Flag groups after the interpreter in a generated first line (SpecLine).
MaxFlagGroups == 2
\* Whole chunks of bufsize bytes in the longest file body (SpecCopy).
MaxChunks == 1

(***************************************************************************)
(* Byte strings.                                                           *)
(***************************************************************************)
SP == <<" ">>
NL == <<"\n">>
TAB == <<"\t">>
SHEBANG == <<"#", "!">>
PYTHON == <<"p", "y", "t", "h", "o", "n">>
SPHYPHEN == <<" ", "-">>

\* bytes.startswith
startswith(s, p) ==
    Len(s) >= Len(p) /\ SubSeq(s, 1, Len(p)) = p

\* the 1-based places where p occurs in s
Occurrences(s, p) ==
    {i \in 1..(Len(s) - Len(p) + 1) : SubSeq(s, i, i + Len(p) - 1) = p}

\* p in s
contains(s, p) ==
    Occurrences(s, p) # {}

\* bytes.find: the 0-based place of the first occurrence, -1 without one
find(s, p) ==
    IF Occurrences(s, p) = {} THEN -1
    ELSE (CHOOSE i \in Occurrences(s, p) : \A j \in Occurrences(s, p) : i <= j) - 1

\* bytes.rstrip(b'\n')
RECURSIVE rstripNL(_)
rstripNL(s) ==
    IF s # <<>> /\ s[Len(s)] = "\n" THEN rstripNL(SubSeq(s, 1, Len(s) - 1)) ELSE s

\* s[k:], k 0-based
From(s, k) ==
    SubSeq(s, k + 1, Len(s))

\* f.readline() at the start of the data: up to and including the first
\* newline, or all of it
readline(data) ==
    IF find(data, NL) = -1 THEN data ELSE SubSeq(data, 1, find(data, NL) + 1)

(***************************************************************************)
(* The rewrite of the first line.                                          *)
(***************************************************************************)
\* a parse_shebang that looks for the last space-hyphen (rfind)
parse_shebang_rfind(shebangline) ==
    LET stripped == rstripNL(shebangline)
        occ == Occurrences(stripped, SPHYPHEN)
    IN  IF occ = {} THEN <<>>
        ELSE From(stripped, (CHOOSE i \in occ : \A j \in occ : j <= i) - 1)

parse_shebang(shebangline) ==
    LET stripped == rstripNL(shebangline)
        start == find(stripped, SPHYPHEN)
    IN  IF start = -1 THEN <<>> ELSE From(stripped, start)

\* a populate_flags that keeps the old flags whether or not -k was given
populate_flags_always_keep(shebangline) ==
    LET parsed == parse_shebang(shebangline)
        old_flags == IF parsed # <<>> THEN From(parsed, 2) ELSE <<>>
    IN  IF old_flags = <<>> /\ ADD_FLAGS = <<>> THEN <<>>
        ELSE SPHYPHEN \o ADD_FLAGS \o old_flags

\* a populate_flags without the test for "no flags at all"
populate_flags_dangling(shebangline) ==
    LET parsed == IF KEEP_FLAGS THEN parse_shebang(shebangline) ELSE <<>>
        old_flags == IF parsed # <<>> THEN From(parsed, 2) ELSE <<>>
    IN  SPHYPHEN \o ADD_FLAGS \o old_flags

populate_flags(shebangline) ==
    LET parsed == IF KEEP_FLAGS THEN parse_shebang(shebangline) ELSE <<>>
        old_flags == IF parsed # <<>> THEN From(parsed, 2) ELSE <<>>
    IN  IF old_flags = <<>> /\ ADD_FLAGS = <<>> THEN <<>>
        ELSE SPHYPHEN \o ADD_FLAGS \o old_flags

\* a fixline that rewrites every #! line, python or not
fixline_any_shebang(line) ==
    IF ~startswith(line, SHEBANG) THEN line
    ELSE IF NEW_INTERPRETER = <<>> THEN line
    ELSE SHEBANG \o SP \o NEW_INTERPRETER[1] \o populate_flags(line) \o NL

\* a fixline that keeps the old command after the new interpreter
fixline_grows(line) ==
    IF ~startswith(line, SHEBANG) THEN line
    ELSE IF ~contains(line, PYTHON) THEN line
    ELSE IF NEW_INTERPRETER = <<>> THEN line
    ELSE SHEBANG \o SP \o NEW_INTERPRETER[1] \o SP \o rstripNL(From(line, 2)) \o NL

\* a fixline that puts no space after #!
fixline_no_space(line) ==
    IF ~startswith(line, SHEBANG) THEN line
    ELSE IF ~contains(line, PYTHON) THEN line
    ELSE IF NEW_INTERPRETER = <<>> THEN line
    ELSE SHEBANG \o NEW_INTERPRETER[1] \o populate_flags(line) \o NL

fixline(line) ==
    IF ~startswith(line, SHEBANG) THEN line
    ELSE IF ~contains(line, PYTHON) THEN line
    ELSE IF NEW_INTERPRETER = <<>> THEN line
    ELSE SHEBANG \o SP \o NEW_INTERPRETER[1] \o populate_flags(line) \o NL

(***************************************************************************)
(* File names and paths.                                                   *)
(***************************************************************************)
N_d == <<"d">>
N_sub == <<"s", "u", "b">>
N_a_py == <<"a", ".", "p", "y">>
N_b_py == <<"b", ".", "p", "y">>
N_c_py == <<"c", ".", "p", "y">>
N_e_py == <<"e", ".", "p", "y">>
N_l_py == <<"l", ".", "p", "y">>
N_t == <<"t">>
N_t_bak == <<"t", "~">>
N_a_bak == <<"a", ".", "p", "y", "~">>
N_c_nl == <<"c", ".", "p", "y", "\n">>
N_lf == <<"l", "f">>
N_ld == <<"l", "d">>
N_dg == <<"d", "g">>
N_gone == <<"g", "o", "n", "e">>

\* the characters [a-zA-Z0-9_] that occur in the model's names
WordChars == {"a", "b", "c", "d", "e", "f", "g", "l", "n", "o", "p", "s", "t", "u", "y"}

\* the code points of the characters of the model's names (str.sort order)
Code ==
    ("\n" :> 10) @@ ("." :> 46) @@ ("@" :> 64) @@ ("~" :> 126) @@
    ("a" :> 97) @@ ("b" :> 98) @@ ("c" :> 99) @@ ("d" :> 100) @@ ("e" :> 101) @@
    ("f" :> 102) @@ ("g" :> 103) @@ ("l" :> 108) @@ ("n" :> 110) @@ ("o" :> 111) @@
    ("p" :> 112) @@ ("s" :> 115) @@ ("t" :> 116) @@ ("u" :> 117) @@ ("y" :> 121)

\* a <= b as Python compares two str
RECURSIVE NameLeq(_, _)
NameLeq(a, b) ==
    IF a = <<>> THEN TRUE
    ELSE IF b = <<>> THEN FALSE
    ELSE IF Head(a) # Head(b) THEN Code[Head(a)] < Code[Head(b)]
    ELSE NameLeq(Tail(a), Tail(b))

\* the names from the last to the first
RECURSIVE SortNamesReverse(_)
SortNamesReverse(S) ==
    IF S = {} THEN <<>>
    ELSE LET m == CHOOSE x \in S : \A y \in S : NameLeq(y, x)
         IN  <<m>> \o SortNamesReverse(S \ {m})

\* names.sort() of os.listdir's names, which are distinct
RECURSIVE SortNames(_)
SortNames(S) ==
    IF S = {} THEN <<>>
    ELSE LET m == CHOOSE x \in S : \A y \in S : NameLeq(x, y)
         IN  <<m>> \o SortNames(S \ {m})

\* an ispython that looks for [a-zA-Z0-9_]+\.py anywhere in the name
ispython_search(name) ==
    \E i \in 2..(Len(name) - 2) :
        name[i - 1] \in WordChars /\ SubSeq(name, i, i + 2) = <<".", "p", "y">>

\* ispythonprog = re.compile(r'^[a-zA-Z0-9_]+\.py$') and ispython: `$` also
\* matches before one trailing newline
ispython(name) ==
    LET core == IF name # <<>> /\ name[Len(name)] = "\n"
                THEN SubSeq(name, 1, Len(name) - 1) ELSE name
    IN  /\ Len(core) >= 4
        /\ SubSeq(core, Len(core) - 2, Len(core)) = <<".", "p", "y">>
        /\ \A i \in 1..(Len(core) - 3) : core[i] \in WordChars

\* os.path.join(dirname, name)
join(dirname, name) ==
    Append(dirname, name)

Front(path) ==
    SubSeq(path, 1, Len(path) - 1)

Last(path) ==
    path[Len(path)]

\* a temp name that is the backup's name
TempNameTilde(filename) ==
    Append(SubSeq(filename, 1, Len(filename) - 1), filename[Len(filename)] \o <<"~">>)

\* a temp name that is the name of the file itself
TempNameSame(filename) ==
    filename

\* head, tail = os.path.split(filename); os.path.join(head, '@' + tail)
TempName(filename) ==
    join(Front(filename), <<"@">> \o Last(filename))

\* a backup name with two tildes
BackupNameTwice(filename) ==
    join(Front(filename), Last(filename) \o <<"~", "~">>)

\* filename + '~'
BackupName(filename) ==
    join(Front(filename), Last(filename) \o <<"~">>)

(***************************************************************************)
(* The file system and the OS calls the program makes.                     *)
(***************************************************************************)
File(data, mode, mtime, atime) ==
    [kind |-> "file", data |-> data, mode |-> mode, mtime |-> mtime,
     atime |-> atime, target |-> <<>>]

Dir ==
    [kind |-> "dir", data |-> <<>>, mode |-> 16877, mtime |-> 1, atime |-> 1,
     target |-> <<>>]

Link(target) ==
    [kind |-> "link", data |-> <<>>, mode |-> 41471, mtime |-> 1, atime |-> 1,
     target |-> target]

Exists(f, q) ==
    q \in DOMAIN f

\* path resolution: Follow resolves every symbolic link (stat), LResolve every
\* one but a link that is the last component (lstat)
RECURSIVE Follow(_, _)
Follow(f, p) ==
    IF p = <<>> THEN <<>>
    ELSE LET q == Append(Follow(f, Front(p)), Last(p))
         IN  IF Exists(f, q) /\ f[q].kind = "link" THEN Follow(f, f[q].target) ELSE q

LResolve(f, p) ==
    IF p = <<>> THEN <<>> ELSE Append(Follow(f, Front(p)), Last(p))

IsDirAt(f, q) ==
    q = <<>> \/ (Exists(f, q) /\ f[q].kind = "dir")

\* os.path.isdir
isdir(f, p) ==
    Exists(f, Follow(f, p)) /\ f[Follow(f, p)].kind = "dir"

\* os.path.islink
islink(f, p) ==
    Exists(f, LResolve(f, p)) /\ f[LResolve(f, p)].kind = "link"

\* os.listdir can succeed
CanList(f, p) ==
    isdir(f, p)

listdir(f, p) ==
    {n \in {Last(q) : q \in {r \in DOMAIN f : Len(r) > 0}} : Exists(f, Append(Follow(f, p), n))}

\* open(name, 'rb') can succeed
CanOpenRead(f, p) ==
    Exists(f, Follow(f, p)) /\ f[Follow(f, p)].kind = "file"

\* open(name, 'wb') can succeed
CanOpenWrite(f, p) ==
    LET q == Follow(f, p)
    IN  IF Exists(f, q) THEN f[q].kind = "file" ELSE q # <<>> /\ IsDirAt(f, Front(q))

Put(f, q, e) ==
    [r \in (DOMAIN f) \cup {q} |-> IF r = q THEN e ELSE f[r]]

Drop(f, q) ==
    [r \in (DOMAIN f) \ {q} |-> f[r]]

\* open(name, 'wb'): the file is created, or truncated when it exists
OpenWrite(f, p) ==
    LET q == Follow(f, p)
    IN  IF Exists(f, q)
        THEN Put(f, q, [f[q] EXCEPT !.data = <<>>, !.mtime = 9])
        ELSE Put(f, q, File(<<>>, 33188, 9, 9))

\* a write that puts buf in place of what the file holds
WriteOver(f, p, buf) ==
    Put(f, Follow(f, p), [f[Follow(f, p)] EXCEPT !.data = buf, !.mtime = 9])

\* g.write(buf)
WriteAppend(f, p, buf) ==
    LET q == Follow(f, p)
    IN  Put(f, q, [f[q] EXCEPT !.data = @ \o buf, !.mtime = 9])

\* os.stat can succeed
CanStat(f, p) ==
    Exists(f, Follow(f, p))

Stat(f, p) ==
    f[Follow(f, p)]

\* statbuf[ST_MODE] & 0o7777
PermBits(mode) ==
    mode % 4096

\* a chmod that changes nothing
ChmodNothing(f, p, perm) ==
    f

\* os.chmod(name, perm)
Chmod(f, p, perm) ==
    LET q == Follow(f, p)
    IN  Put(f, q, [f[q] EXCEPT !.mode = (@ - PermBits(@)) + perm])

\* os.rename(old, new) can succeed: old exists (and is no directory here), and
\* new is no directory
CanRename(f, old, new) ==
    /\ Exists(f, LResolve(f, old))
    /\ f[LResolve(f, old)].kind # "dir"
    /\ ~(Exists(f, LResolve(f, new)) /\ f[LResolve(f, new)].kind = "dir")
    /\ IsDirAt(f, Front(LResolve(f, new)))

\* a rename that leaves the old name in place
RenameCopy(f, old, new) ==
    Put(f, LResolve(f, new), f[LResolve(f, old)])

Rename(f, old, new) ==
    IF LResolve(f, old) = LResolve(f, new) THEN f
    ELSE Put(Drop(f, LResolve(f, old)), LResolve(f, new), f[LResolve(f, old)])

\* os.remove can succeed
CanRemove(f, p) ==
    Exists(f, LResolve(f, p)) /\ f[LResolve(f, p)].kind # "dir"

Remove(f, p) ==
    Drop(f, LResolve(f, p))

\* os.utime(name, (atime, mtime))
Utime(f, p, atime, mtime) ==
    LET q == Follow(f, p)
    IN  Put(f, q, [f[q] EXCEPT !.atime = atime, !.mtime = mtime])

(***************************************************************************)
(* The run's inputs: the command line and the tree it is run on.           *)
(***************************************************************************)
I_python == <<"/">> \o PYTHON
I_relative == PYTHON
A_s == <<"s">>
A_space == <<"s", " ", "v">>
A_tab == <<"s", "\t", "v">>

Opt(o, a) ==
    [o |-> o, a |-> a]

\* the option lists getopt hands back, and one with an option it refuses
OptLists ==
    { <<Opt("i", I_python)>>,
      <<Opt("i", I_python), Opt("k", <<>>)>>,
      <<Opt("a", A_s), Opt("i", I_python)>>,
      <<Opt("k", <<>>), Opt("i", I_python), Opt("a", A_s)>>,
      <<Opt("i", I_python), Opt("n", <<>>)>>,
      <<Opt("p", <<>>), Opt("i", I_python)>>,
      <<Opt("n", <<>>), Opt("p", <<>>), Opt("i", I_python)>>,
      <<Opt("i", I_python), Opt("a", A_tab)>>,
      <<>>,
      <<Opt("k", <<>>)>>,
      <<Opt("i", I_relative)>>,
      <<Opt("i", <<>>)>>,
      <<Opt("i", I_python), Opt("x", <<>>)>>,
      <<Opt("a", A_space), Opt("i", I_python)>>,
      <<Opt("i", I_python), Opt("a", A_space)>> }

P_d == <<N_d>>
P_a == <<N_d, N_a_py>>
P_b == <<N_d, N_b_py>>
P_e == <<N_d, N_e_py>>
P_l == <<N_d, N_l_py>>
P_t == <<N_d, N_t>>
P_t_bak == <<N_d, N_t_bak>>
P_a_bak == <<N_d, N_a_bak>>
P_c_nl == <<N_d, N_sub, N_c_nl>>
P_sub == <<N_d, N_sub>>
P_d_ld == <<N_d, N_ld>>
P_c == <<N_d, N_sub, N_c_py>>
P_lf == <<N_lf>>
P_ld == <<N_ld>>
P_dg == <<N_dg>>
P_gone == <<N_gone>>

L_python_s == SHEBANG \o I_python \o <<" ", "-", "s">> \o NL
L_sh == SHEBANG \o <<"/", "s", "h">> \o NL
L_comment == <<"#", " ">> \o PYTHON \o NL
L_python_eof == SHEBANG \o PYTHON
BODY == <<"x", "\n", "y">>

\* the tree the program is run on
FS0 ==
    (P_d :> Dir) @@
    (P_a :> File(L_python_s \o BODY, 33261, 5, 6)) @@
    (P_a_bak :> File(<<"o", "\n">>, 33188, 2, 2)) @@
    (P_b :> File(L_sh \o BODY, 33261, 5, 6)) @@
    (P_e :> File(L_comment, 33188, 5, 6)) @@
    (P_l :> Link(P_a)) @@
    (P_t :> File(SHEBANG \o PYTHON \o NL \o BODY, 33216, 7, 7)) @@
    (P_t_bak :> Dir) @@
    (P_sub :> Dir) @@
    (P_d_ld :> Link(P_sub)) @@
    (P_c :> File(L_python_eof, 33188, 0, 3)) @@
    (P_c_nl :> File(L_comment, 33188, 5, 6)) @@
    (P_lf :> Link(P_a)) @@
    (P_ld :> Link(P_sub)) @@
    (P_dg :> Link(P_gone))

Targets == {P_d, P_t, P_lf, P_ld, P_dg, P_gone}

ArgLists ==
    {<<>>} \cup {<<t>> : t \in Targets} \cup {<<t, u>> : t \in Targets, u \in Targets}

(***************************************************************************)
(* Frames, messages and history records.                                   *)
(***************************************************************************)
IdleFx ==
    [pc |-> "idle", filename |-> <<>>, line |-> <<>>, fixed |-> <<>>,
     tempname |-> <<>>, rpos |-> 0, mtime |-> -1, atime |-> -1, ret |-> 0,
     opened |-> FALSE, old |-> <<>>, sys0 |-> 0]

CallFix(filename) ==
    [IdleFx EXCEPT !.pc = "open", !.filename = filename, !.old = fs,
                   !.sys0 = Len(syscalls)]

Frame(dirname) ==
    [dirname |-> dirname, phase |-> "enter", names |-> <<>>, i |-> 1,
     subdirs |-> <<>>, j |-> 1, bad |-> 0]

Msg(kind, path) ==
    [kind |-> kind, path |-> path]

Event(op, path, names, top) ==
    [op |-> op, path |-> path, names |-> names, top |-> top]

Sys(call, path, to, ok) ==
    [call |-> call, path |-> path, to |-> to, ok |-> ok]

\* the outcomes of an OS call: it fails when it cannot succeed, and it may
\* fail for a reason outside the model while the run has faults left
Outcomes(can) ==
    {ok \in BOOLEAN : (ok => can) /\ (~ok => (~can \/ faults < MaxFaults))}

FaultsAfter(can, ok) ==
    IF can /\ ~ok THEN faults + 1 ELSE faults

NoProbe ==
    [line |-> <<>>, n |-> 0, hist |-> <<>>]

(***************************************************************************)
(* main                                                                    *)
(***************************************************************************)
Exit(code) ==
    /\ pc' = "exited"
    /\ exitCode' = code

\* getopt.getopt(sys.argv[1:], 'i:a:kpn') raises getopt.error
GetoptError(opts) ==
    \E k \in 1..Len(opts) : opts[k].o \notin {"i", "a", "k", "p", "n"}

MainGetopt ==
    /\ pc = "getopt"
    /\ IF GetoptError(argv.opts)
       THEN /\ errlog' = errlog \o <<Msg("getopt", <<>>), Msg("usage", <<>>)>>
            /\ Exit(2)
       ELSE /\ pc' = "opts"
            /\ UNCHANGED <<errlog, exitCode>>
    /\ optIdx' = 1
    /\ UNCHANGED <<argv, config, argIdx, bad, stack, fx, fs, out, trace,
                   syscalls, faults, probe>>

\* b' ' in ADD_FLAGS
HasSpace(flags) ==
    contains(flags, SP)

\* one turn of `for o, a in opts`
MainOpt ==
    /\ pc = "opts"
    /\ optIdx <= Len(argv.opts)
    /\ LET o == argv.opts[optIdx].o
           a == argv.opts[optIdx].a
       IN  /\ NEW_INTERPRETER' = IF o = "i" THEN <<a>> ELSE NEW_INTERPRETER
           /\ PRESERVE_TIMESTAMPS' = IF o = "p" THEN TRUE ELSE PRESERVE_TIMESTAMPS
           /\ CREATE_BACKUP' = IF o = "n" THEN FALSE ELSE CREATE_BACKUP
           /\ KEEP_FLAGS' = IF o = "k" THEN TRUE ELSE KEEP_FLAGS
           /\ ADD_FLAGS' = IF o = "a" THEN a ELSE ADD_FLAGS
           /\ IF o = "a" /\ HasSpace(a)
              THEN /\ errlog' = Append(errlog, Msg("whitespace", <<>>))
                   /\ Exit(2)
                   /\ UNCHANGED optIdx
              ELSE /\ optIdx' = optIdx + 1
                   /\ UNCHANGED <<errlog, pc, exitCode>>
    /\ UNCHANGED <<argv, argIdx, bad, stack, fx, fs, out, trace, syscalls,
                   faults, probe>>

\* a test that does not look at the arguments
UsageErrorNoArgsTest(interpreter, args) ==
    \/ interpreter = <<>>
    \/ interpreter[1] = <<>>
    \/ ~startswith(interpreter[1], <<"/">>)

\* not NEW_INTERPRETER or not NEW_INTERPRETER.startswith(b'/') or not args
UsageError(interpreter, args) ==
    \/ interpreter = <<>>
    \/ interpreter[1] = <<>>
    \/ ~startswith(interpreter[1], <<"/">>)
    \/ args = <<>>

MainUsage ==
    /\ pc = "opts"
    /\ optIdx > Len(argv.opts)
    /\ IF UsageError(NEW_INTERPRETER, argv.args)
       THEN /\ errlog' = errlog \o <<Msg("missing", <<>>), Msg("usage", <<>>)>>
            /\ Exit(2)
            /\ UNCHANGED <<bad, argIdx>>
       ELSE /\ pc' = "args"
            /\ bad' = 0
            /\ argIdx' = 1
            /\ UNCHANGED <<errlog, exitCode>>
    /\ UNCHANGED <<argv, config, optIdx, stack, fx, fs, out, trace, syscalls,
                   faults, probe>>

\* a main that tests islink only after isdir and does not test it at all
ArgKindNoLinkTest(f, arg) ==
    IF isdir(f, arg) THEN "dir" ELSE "file"

\* the branch main takes for an argument
ArgKind(f, arg) ==
    IF isdir(f, arg) THEN "dir"
    ELSE IF islink(f, arg) THEN "link"
    ELSE "file"

\* `bad = fix(arg)` in place of `if fix(arg): bad = 1`
FlagAfterAssign(flag, ret) ==
    ret

\* a caller that does not look at what the call returns
FlagAfterNever(flag, ret) ==
    flag

\* if <call>: bad = 1
FlagAfter(flag, ret) ==
    IF ret # 0 THEN 1 ELSE flag

\* one turn of `for arg in args`, up to the call it makes
MainArg ==
    /\ pc = "args"
    /\ argIdx <= Len(argv.args)
    /\ stack = <<>>
    /\ fx.pc = "idle"
    /\ LET arg == argv.args[argIdx]
           kind == ArgKind(fs, arg)
       IN  /\ stack' = IF kind = "dir" THEN <<Frame(arg)>> ELSE stack
           /\ fx' = IF kind = "file" THEN CallFix(arg) ELSE fx
           /\ trace' = IF kind = "dir" THEN Append(trace, Event("recursedown", arg, <<>>, TRUE))
                       ELSE IF kind = "file" THEN Append(trace, Event("fix", arg, <<>>, TRUE))
                       ELSE trace
           /\ errlog' = IF kind = "link" THEN Append(errlog, Msg("symlink", arg)) ELSE errlog
           /\ bad' = IF kind = "link" THEN 1 ELSE bad
           /\ argIdx' = IF kind = "link" THEN argIdx + 1 ELSE argIdx
    /\ UNCHANGED <<argv, config, pc, optIdx, exitCode, fs, out, syscalls,
                   faults, probe>>

\* sys.exit(bad)
MainExit ==
    /\ pc = "args"
    /\ argIdx > Len(argv.args)
    /\ stack = <<>>
    /\ fx.pc = "idle"
    /\ Exit(bad)
    /\ UNCHANGED <<argv, config, optIdx, argIdx, bad, stack, fx, fs, out,
                   errlog, trace, syscalls, faults, probe>>

(***************************************************************************)
(* recursedown                                                             *)
(***************************************************************************)
Top ==
    stack[Len(stack)]

SetTop(frame) ==
    [stack EXCEPT ![Len(stack)] = frame]

CURDIR == <<".">>
PARDIR == <<".", ".">>

\* dbg(...), names = os.listdir(dirname), names.sort(), subdirs = []
RecurseEnter ==
    /\ stack # <<>>
    /\ Top.phase = "enter"
    /\ \E ok \in Outcomes(CanList(fs, Top.dirname)) :
          /\ faults' = FaultsAfter(CanList(fs, Top.dirname), ok)
          /\ syscalls' = Append(syscalls, Sys("listdir", Top.dirname, <<>>, ok))
          /\ IF ok
             THEN LET names == SortNames(listdir(fs, Top.dirname))
                  IN  /\ stack' = SetTop([Top EXCEPT !.phase = "names", !.names = names])
                      /\ trace' = Append(trace, Event("list", Top.dirname, names, FALSE))
                      /\ errlog' = Append(errlog, Msg("dbg", Top.dirname))
             ELSE /\ stack' = SetTop([Top EXCEPT !.phase = "ret", !.bad = 1])
                  /\ errlog' = errlog \o <<Msg("dbg", Top.dirname),
                                           Msg("cannot list", Top.dirname)>>
                  /\ UNCHANGED trace
    /\ UNCHANGED <<argv, config, pc, optIdx, argIdx, bad, exitCode, fx, fs, out,
                   probe>>

\* a recursedown without the test for symbolic links
NameKindFollowsLinks(f, dirname, name) ==
    IF name \in {CURDIR, PARDIR} THEN "skip"
    ELSE IF isdir(f, join(dirname, name)) THEN "subdir"
    ELSE IF ispython(name) THEN "fix"
    ELSE "skip"

\* what recursedown does with one name of the listing
NameKind(f, dirname, name) ==
    IF name \in {CURDIR, PARDIR} THEN "skip"
    ELSE IF islink(f, join(dirname, name)) THEN "skip"
    ELSE IF isdir(f, join(dirname, name)) THEN "subdir"
    ELSE IF ispython(name) THEN "fix"
    ELSE "skip"

\* one turn of `for name in names`, up to the call of fix
RecurseName ==
    /\ stack # <<>>
    /\ Top.phase = "names"
    /\ Top.i <= Len(Top.names)
    /\ fx.pc = "idle"
    /\ LET name == Top.names[Top.i]
           fullname == join(Top.dirname, name)
           kind == NameKind(fs, Top.dirname, name)
       IN  /\ stack' = SetTop(
                  IF kind = "fix" THEN Top
                  ELSE IF kind = "subdir"
                  THEN [Top EXCEPT !.subdirs = Append(@, fullname), !.i = @ + 1]
                  ELSE [Top EXCEPT !.i = @ + 1])
           /\ fx' = IF kind = "fix" THEN CallFix(fullname) ELSE fx
           /\ trace' = IF kind = "fix"
                       THEN Append(trace, Event("fix", fullname, <<>>, FALSE))
                       ELSE trace
    /\ UNCHANGED <<argv, config, pc, optIdx, argIdx, bad, exitCode, fs, out,
                   errlog, syscalls, faults, probe>>

\* the loop over the names is over: on to `for fullname in subdirs`
RecurseNamesDone ==
    /\ stack # <<>>
    /\ Top.phase = "names"
    /\ Top.i > Len(Top.names)
    /\ stack' = SetTop([Top EXCEPT !.phase = "subdirs"])
    /\ UNCHANGED <<argv, config, pc, optIdx, argIdx, bad, exitCode, fx, fs, out,
                   errlog, trace, syscalls, faults, probe>>

\* one turn of `for fullname in subdirs`, up to the call of recursedown
RecurseSubdir ==
    /\ stack # <<>>
    /\ Top.phase = "subdirs"
    /\ Top.j <= Len(Top.subdirs)
    /\ stack' = Append(stack, Frame(Top.subdirs[Top.j]))
    /\ trace' = Append(trace, Event("recursedown", Top.subdirs[Top.j], <<>>, FALSE))
    /\ UNCHANGED <<argv, config, pc, optIdx, argIdx, bad, exitCode, fx, fs, out,
                   errlog, syscalls, faults, probe>>

\* recursedown returns (return 1 after a failed listing, return bad at the
\* end) and its caller goes on: main, or the loop over the subdirectories
RecurseReturn ==
    /\ stack # <<>>
    /\ \/ Top.phase = "ret"
       \/ Top.phase = "subdirs" /\ Top.j > Len(Top.subdirs)
    /\ IF Len(stack) = 1
       THEN /\ stack' = <<>>
            /\ bad' = FlagAfter(bad, Top.bad)
            /\ argIdx' = argIdx + 1
       ELSE /\ stack' = [k \in 1..(Len(stack) - 1) |->
                           IF k = Len(stack) - 1
                           THEN [stack[k] EXCEPT !.bad = FlagAfter(@, Top.bad),
                                                 !.j = @ + 1]
                           ELSE stack[k]]
            /\ UNCHANGED <<bad, argIdx>>
    /\ UNCHANGED <<argv, config, pc, optIdx, exitCode, fx, fs, out, errlog,
                   trace, syscalls, faults, probe>>

\* a recursedown that returns at the first file fix fails on
ResumeFrameAbort(frame, ret) ==
    IF ret # 0 THEN [frame EXCEPT !.bad = 1, !.phase = "ret"]
    ELSE [frame EXCEPT !.i = @ + 1]

\* `if fix(fullname): bad = 1`, and on to the next name
ResumeFrame(frame, ret) ==
    [frame EXCEPT !.bad = FlagAfter(@, ret), !.i = @ + 1]

\* fix returns and its caller goes on: main, or the loop over the names
FixReturn ==
    /\ fx.pc = "ret"
    /\ fx' = IdleFx
    /\ IF stack = <<>>
       THEN /\ bad' = FlagAfter(bad, fx.ret)
            /\ argIdx' = argIdx + 1
            /\ UNCHANGED stack
       ELSE /\ stack' = SetTop(ResumeFrame(Top, fx.ret))
            /\ UNCHANGED <<bad, argIdx>>
    /\ UNCHANGED <<argv, config, pc, optIdx, exitCode, fs, out, errlog, trace,
                   syscalls, faults, probe>>

(***************************************************************************)
(* fix                                                                     *)
(***************************************************************************)
Return(ret) ==
    [fx EXCEPT !.pc = "ret", !.ret = ret]

\* a comparison that never finds the line unchanged
UnchangedNever(line, fixed) ==
    FALSE

\* line == fixed
Unchanged(line, fixed) ==
    line = fixed

\* open(filename, 'rb'), f.readline(), fixline, and the "no change" return
FixOpen ==
    /\ fx.pc = "open"
    /\ \E ok \in Outcomes(CanOpenRead(fs, fx.filename)) :
          /\ faults' = FaultsAfter(CanOpenRead(fs, fx.filename), ok)
          /\ syscalls' = Append(syscalls, Sys("open_rb", fx.filename, <<>>, ok))
          /\ IF ok
             THEN LET line == readline(fs[Follow(fs, fx.filename)].data)
                      fixed == fixline(line)
                  IN  IF Unchanged(line, fixed)
                      THEN /\ out' = Append(out, Msg("no change", fx.filename))
                           /\ fx' = [Return(0) EXCEPT !.line = line, !.fixed = fixed,
                                                      !.opened = TRUE]
                           /\ UNCHANGED errlog
                      ELSE /\ fx' = [fx EXCEPT !.pc = "temp", !.line = line,
                                               !.fixed = fixed, !.opened = TRUE,
                                               !.rpos = Len(line),
                                               !.tempname = TempName(fx.filename)]
                           /\ UNCHANGED <<out, errlog>>
             ELSE /\ errlog' = Append(errlog, Msg("cannot open", fx.filename))
                  /\ fx' = Return(1)
                  /\ UNCHANGED out
    /\ UNCHANGED <<argv, config, pc, optIdx, argIdx, bad, exitCode, stack, fs,
                   trace, probe>>

\* a fix that goes to the stat and chmod once the temp file is created,
\* before anything is written to it
FixTempSkipsCopy ==
    /\ fx.pc = "temp"
    /\ \E ok \in Outcomes(CanOpenWrite(fs, fx.tempname)) :
          /\ faults' = FaultsAfter(CanOpenWrite(fs, fx.tempname), ok)
          /\ syscalls' = Append(syscalls, Sys("open_wb", fx.tempname, <<>>, ok))
          /\ IF ok
             THEN /\ fs' = OpenWrite(fs, fx.tempname)
                  /\ out' = Append(out, Msg("updating", fx.filename))
                  /\ fx' = [fx EXCEPT !.pc = "chmod"]
                  /\ UNCHANGED errlog
             ELSE /\ errlog' = Append(errlog, Msg("cannot create", fx.tempname))
                  /\ fx' = Return(1)
                  /\ UNCHANGED <<fs, out>>
    /\ UNCHANGED <<argv, config, pc, optIdx, argIdx, bad, exitCode, stack,
                   trace, probe>>

\* open(tempname, 'wb') and rep("updating")
FixTemp ==
    /\ fx.pc = "temp"
    /\ \E ok \in Outcomes(CanOpenWrite(fs, fx.tempname)) :
          /\ faults' = FaultsAfter(CanOpenWrite(fs, fx.tempname), ok)
          /\ syscalls' = Append(syscalls, Sys("open_wb", fx.tempname, <<>>, ok))
          /\ IF ok
             THEN /\ fs' = OpenWrite(fs, fx.tempname)
                  /\ out' = Append(out, Msg("updating", fx.filename))
                  /\ fx' = [fx EXCEPT !.pc = "head"]
                  /\ UNCHANGED errlog
             ELSE /\ errlog' = Append(errlog, Msg("cannot create", fx.tempname))
                  /\ fx' = Return(1)
                  /\ UNCHANGED <<fs, out>>
    /\ UNCHANGED <<argv, config, pc, optIdx, argIdx, bad, exitCode, stack,
                   trace, probe>>

\* g.write(fixed)
FixHead ==
    /\ fx.pc = "head"
    /\ \E ok \in Outcomes(TRUE) :
          /\ faults' = FaultsAfter(TRUE, ok)
          /\ syscalls' = Append(syscalls, Sys("write", fx.tempname, <<>>, ok))
          /\ IF ok
             THEN /\ fs' = WriteAppend(fs, fx.tempname, fx.fixed)
                  /\ fx' = [fx EXCEPT !.pc = "copy"]
                  /\ UNCHANGED errlog
             ELSE /\ errlog' = Append(errlog, Msg("cannot create", fx.tempname))
                  /\ fx' = Return(1)
                  /\ UNCHANGED fs
    /\ UNCHANGED <<argv, config, pc, optIdx, argIdx, bad, exitCode, stack, out,
                   trace, probe>>

bufsize == 8 * 1024

\* a read that gives nothing when fewer than bufsize bytes are left
ReadChunkFullOnly(data, rpos) ==
    IF rpos + bufsize <= Len(data) THEN SubSeq(data, rpos + 1, rpos + bufsize) ELSE <<>>

\* f.read(bufsize) at offset rpos
ReadChunk(data, rpos) ==
    SubSeq(data, rpos + 1, IF rpos + bufsize < Len(data) THEN rpos + bufsize ELSE Len(data))

\* one turn of `while 1`: buf = f.read(bufsize), break on an empty buf (both
\* files are closed then), g.write(buf) otherwise
FixCopy ==
    /\ fx.pc = "copy"
    /\ LET buf == ReadChunk(fs[Follow(fs, fx.filename)].data, fx.rpos)
       IN  \E ok \in Outcomes(TRUE) :
              /\ faults' = FaultsAfter(TRUE, ok)
              /\ syscalls' = Append(syscalls,
                     Sys(IF buf = <<>> THEN "close" ELSE "write", fx.tempname, <<>>, ok))
              /\ IF ok
                 THEN /\ fs' = IF buf = <<>> THEN fs ELSE WriteAppend(fs, fx.tempname, buf)
                      /\ fx' = IF buf = <<>> THEN [fx EXCEPT !.pc = "chmod"]
                               ELSE [fx EXCEPT !.rpos = @ + Len(buf)]
                      /\ UNCHANGED errlog
                 ELSE /\ errlog' = Append(errlog, Msg("cannot create", fx.tempname))
                      /\ fx' = Return(1)
                      /\ UNCHANGED fs
    /\ UNCHANGED <<argv, config, pc, optIdx, argIdx, bad, exitCode, stack, out,
                   trace, probe>>

\* statbuf = os.stat(filename), os.chmod(tempname, statbuf[ST_MODE] & 0o7777)
FixChmod ==
    /\ fx.pc = "chmod"
    /\ \E okStat \in Outcomes(CanStat(fs, fx.filename)) :
          IF okStat
          THEN \E okChmod \in Outcomes(CanStat(fs, fx.tempname)) :
                  /\ faults' = FaultsAfter(CanStat(fs, fx.tempname), okChmod)
                  /\ syscalls' = syscalls \o
                         <<Sys("stat", fx.filename, <<>>, TRUE),
                           Sys("chmod", fx.tempname, <<>>, okChmod)>>
                  /\ fx' = [fx EXCEPT !.pc = "backup",
                                      !.mtime = Stat(fs, fx.filename).mtime,
                                      !.atime = Stat(fs, fx.filename).atime]
                  /\ fs' = IF okChmod
                           THEN Chmod(fs, fx.tempname, PermBits(Stat(fs, fx.filename).mode))
                           ELSE fs
                  /\ errlog' = IF okChmod THEN errlog
                               ELSE Append(errlog, Msg("chmod warning", fx.tempname))
          ELSE /\ faults' = FaultsAfter(CanStat(fs, fx.filename), FALSE)
               /\ syscalls' = Append(syscalls, Sys("stat", fx.filename, <<>>, FALSE))
               /\ fx' = [fx EXCEPT !.pc = "backup"]
               /\ errlog' = Append(errlog, Msg("chmod warning", fx.tempname))
               /\ UNCHANGED fs
    /\ UNCHANGED <<argv, config, pc, optIdx, argIdx, bad, exitCode, stack, out,
                   trace, probe>>

\* a fix that makes the backup whether or not -n was given
FixBackupIgnoresN ==
    /\ fx.pc = "backup"
    /\ \E ok \in Outcomes(CanRename(fs, fx.filename, BackupName(fx.filename))) :
          /\ faults' = FaultsAfter(CanRename(fs, fx.filename, BackupName(fx.filename)), ok)
          /\ syscalls' = Append(syscalls,
                 Sys("rename", fx.filename, BackupName(fx.filename), ok))
          /\ fs' = IF ok THEN Rename(fs, fx.filename, BackupName(fx.filename)) ELSE fs
          /\ errlog' = IF ok THEN errlog
                       ELSE Append(errlog, Msg("backup warning", fx.filename))
    /\ fx' = [fx EXCEPT !.pc = "rename"]
    /\ UNCHANGED <<argv, config, pc, optIdx, argIdx, bad, exitCode, stack, out,
                   trace, probe>>

\* a fix that returns 1 when the backup or the delete fails
FixBackupAborts ==
    /\ fx.pc = "backup"
    /\ IF CREATE_BACKUP
       THEN \E ok \in Outcomes(CanRename(fs, fx.filename, BackupName(fx.filename))) :
               /\ faults' = FaultsAfter(CanRename(fs, fx.filename, BackupName(fx.filename)), ok)
               /\ syscalls' = Append(syscalls,
                      Sys("rename", fx.filename, BackupName(fx.filename), ok))
               /\ fs' = IF ok THEN Rename(fs, fx.filename, BackupName(fx.filename)) ELSE fs
               /\ errlog' = IF ok THEN errlog
                            ELSE Append(errlog, Msg("backup warning", fx.filename))
               /\ fx' = IF ok THEN [fx EXCEPT !.pc = "rename"] ELSE Return(1)
       ELSE \E ok \in Outcomes(CanRemove(fs, fx.filename)) :
               /\ faults' = FaultsAfter(CanRemove(fs, fx.filename), ok)
               /\ syscalls' = Append(syscalls, Sys("remove", fx.filename, <<>>, ok))
               /\ fs' = IF ok THEN Remove(fs, fx.filename) ELSE fs
               /\ errlog' = IF ok THEN errlog
                            ELSE Append(errlog, Msg("remove warning", fx.filename))
               /\ fx' = IF ok THEN [fx EXCEPT !.pc = "rename"] ELSE Return(1)
    /\ UNCHANGED <<argv, config, pc, optIdx, argIdx, bad, exitCode, stack, out,
                   trace, probe>>

\* os.rename(filename, filename + '~') if CREATE_BACKUP, else os.remove(filename)
FixBackup ==
    /\ fx.pc = "backup"
    /\ IF CREATE_BACKUP
       THEN \E ok \in Outcomes(CanRename(fs, fx.filename, BackupName(fx.filename))) :
               /\ faults' = FaultsAfter(CanRename(fs, fx.filename, BackupName(fx.filename)), ok)
               /\ syscalls' = Append(syscalls,
                      Sys("rename", fx.filename, BackupName(fx.filename), ok))
               /\ fs' = IF ok THEN Rename(fs, fx.filename, BackupName(fx.filename)) ELSE fs
               /\ errlog' = IF ok THEN errlog
                            ELSE Append(errlog, Msg("backup warning", fx.filename))
       ELSE \E ok \in Outcomes(CanRemove(fs, fx.filename)) :
               /\ faults' = FaultsAfter(CanRemove(fs, fx.filename), ok)
               /\ syscalls' = Append(syscalls, Sys("remove", fx.filename, <<>>, ok))
               /\ fs' = IF ok THEN Remove(fs, fx.filename) ELSE fs
               /\ errlog' = IF ok THEN errlog
                            ELSE Append(errlog, Msg("remove warning", fx.filename))
    /\ fx' = [fx EXCEPT !.pc = "rename"]
    /\ UNCHANGED <<argv, config, pc, optIdx, argIdx, bad, exitCode, stack, out,
                   trace, probe>>

\* `if atime and mtime`: None and 0 are false
Truthy(t) ==
    t # -1 /\ t # 0

\* os.rename(tempname, filename), and the tests that lead to os.utime
FixRename ==
    /\ fx.pc = "rename"
    /\ \E ok \in Outcomes(CanRename(fs, fx.tempname, fx.filename)) :
          /\ faults' = FaultsAfter(CanRename(fs, fx.tempname, fx.filename), ok)
          /\ syscalls' = Append(syscalls, Sys("rename", fx.tempname, fx.filename, ok))
          /\ IF ok
             THEN /\ fs' = Rename(fs, fx.tempname, fx.filename)
                  /\ fx' = IF PRESERVE_TIMESTAMPS /\ Truthy(fx.atime) /\ Truthy(fx.mtime)
                           THEN [fx EXCEPT !.pc = "utime"]
                           ELSE Return(0)
                  /\ UNCHANGED errlog
             ELSE /\ errlog' = Append(errlog, Msg("rename failed", fx.filename))
                  /\ fx' = Return(1)
                  /\ UNCHANGED fs
    /\ UNCHANGED <<argv, config, pc, optIdx, argIdx, bad, exitCode, stack, out,
                   trace, probe>>

\* an os.utime outside of any try: its OSError goes up through fix
FixUtimeUncaught ==
    /\ fx.pc = "utime"
    /\ \E ok \in Outcomes(CanStat(fs, fx.filename)) :
          /\ faults' = FaultsAfter(CanStat(fs, fx.filename), ok)
          /\ syscalls' = Append(syscalls, Sys("utime", fx.filename, <<>>, ok))
          /\ fs' = IF ok THEN Utime(fs, fx.filename, fx.atime, fx.mtime) ELSE fs
          /\ fx' = IF ok THEN Return(0) ELSE [fx EXCEPT !.pc = "raised"]
    /\ UNCHANGED <<argv, config, pc, optIdx, argIdx, bad, exitCode, stack, out,
                   errlog, trace, probe>>

\* os.utime(filename, (atime, mtime))
FixUtime ==
    /\ fx.pc = "utime"
    /\ \E ok \in Outcomes(CanStat(fs, fx.filename)) :
          /\ faults' = FaultsAfter(CanStat(fs, fx.filename), ok)
          /\ syscalls' = Append(syscalls, Sys("utime", fx.filename, <<>>, ok))
          /\ IF ok
             THEN /\ fs' = Utime(fs, fx.filename, fx.atime, fx.mtime)
                  /\ fx' = Return(0)
                  /\ UNCHANGED errlog
             ELSE /\ errlog' = Append(errlog, Msg("timestamp failed", fx.filename))
                  /\ fx' = Return(1)
                  /\ UNCHANGED fs
    /\ UNCHANGED <<argv, config, pc, optIdx, argIdx, bad, exitCode, stack, out,
                   trace, probe>>

(***************************************************************************)
(* The program.                                                            *)
(***************************************************************************)
Init ==
    /\ argv \in [opts : OptLists, args : ArgLists]
    /\ NEW_INTERPRETER = <<>>
    /\ PRESERVE_TIMESTAMPS = FALSE
    /\ CREATE_BACKUP = TRUE
    /\ KEEP_FLAGS = FALSE
    /\ ADD_FLAGS = <<>>
    /\ pc = "getopt"
    /\ optIdx = 1
    /\ argIdx = 1
    /\ bad = 0
    /\ exitCode = -1
    /\ stack = <<>>
    /\ fx = IdleFx
    /\ fs = FS0
    /\ out = <<>>
    /\ errlog = <<>>
    /\ trace = <<>>
    /\ syscalls = <<>>
    /\ faults = 0
    /\ probe = NoProbe

Next ==
    \/ MainGetopt
    \/ MainOpt
    \/ MainUsage
    \/ MainArg
    \/ MainExit
    \/ RecurseEnter
    \/ RecurseName
    \/ RecurseNamesDone
    \/ RecurseSubdir
    \/ RecurseReturn
    \/ FixOpen
    \/ FixTemp
    \/ FixHead
    \/ FixCopy
    \/ FixChmod
    \/ FixBackup
    \/ FixRename
    \/ FixUtime
    \/ FixReturn

Spec == Init /\ [][Next]_vars

\* the program is one thread that runs until sys.exit: it takes its next
\* step whenever it has one
InitFair ==
    /\ Init
    /\ argv.opts \in { <<Opt("p", <<>>), Opt("i", I_python)>>,
                       <<Opt("n", <<>>), Opt("p", <<>>), Opt("i", I_python)>>,
                       <<Opt("i", I_python), Opt("x", <<>>)>>,
                       <<Opt("a", A_space), Opt("i", I_python)>>,
                       <<Opt("k", <<>>)>> }
    /\ Len(argv.args) = 1

SpecFair == InitFair /\ [][Next]_vars /\ WF_vars(Next)

(***************************************************************************)
(* The rewrite alone: what fix makes of a file's content when it goes      *)
(* through, applied to first lines and configurations of every shape.      *)
(***************************************************************************)
\* the content fix leaves at the original name: the new first line, then
\* the rest of the file
rewrite(data) ==
    fixline(readline(data)) \o From(data, Len(readline(data)))

I_sh == <<"/", "s", "h">>
I_hyphen == <<"/", "o", " ", "-">> \o PYTHON
I_opt == <<"/", "o", "p", "t", "/", "b", "i", "n", "/", "p", "y", "t", "h", "o", "n", "3">>
I_newline == <<"/">> \o PYTHON \o <<"\n", "x">>
A_sv == <<"s", "v">>
A_newline == <<"s", "\n", "v">>
L_example == <<"#", "!", " ", "/", "u", "s", "r", "/", "b", "i", "n", "/", "e", "n", "v", " ", "p", "y", "t", "h", "o", "n", " ", "-", "W", " ", "E", "r", "r", "o", "r", " ", "-", "s">>
R_example == <<"#", "!", " ", "/", "o", "p", "t", "/", "b", "i", "n", "/", "p", "y", "t", "h", "o", "n", "3", " ", "-", "s", "v", "W", " ", "E", "r", "r", "o", "r", " ", "-", "s", "\n">>

\* the values -i and -a can leave in the configuration: main lets through an
\* interpreter that starts with a slash and flags without a space
Interpreters == {I_python, I_sh, I_hyphen, I_opt, I_newline}
AddFlags == {<<>>, A_s, A_sv, A_tab, A_newline}

LinePrefixes == {SHEBANG, SHEBANG \o SP, <<>>}
LineCommands == {I_python, <<"/", "e", "n", "v", " ">> \o PYTHON, I_sh}
FlagGroups == {<<" ", "-", "s">>, <<" ", "-">>, <<" ", "e">>}
LineEnds == {NL, <<>>}

RECURSIVE FlagTails(_)
FlagTails(n) ==
    IF n = 0 THEN {<<>>}
    ELSE FlagTails(n - 1) \cup {t \o g : t \in FlagTails(n - 1), g \in FlagGroups}

Lines ==
    {L_example} \cup
    {p \o c \o t \o e : p \in LinePrefixes, c \in LineCommands,
                        t \in FlagTails(MaxFlagGroups), e \in LineEnds}

InitLine ==
    /\ argv = [opts |-> <<>>, args |-> <<>>]
    /\ NEW_INTERPRETER \in {<<i>> : i \in Interpreters}
    /\ PRESERVE_TIMESTAMPS = FALSE
    /\ CREATE_BACKUP = TRUE
    /\ KEEP_FLAGS \in BOOLEAN
    /\ ADD_FLAGS \in AddFlags
    /\ pc = "fixline"
    /\ optIdx = 1
    /\ argIdx = 1
    /\ bad = 0
    /\ exitCode = -1
    /\ stack = <<>>
    /\ fx = IdleFx
    /\ fs = <<>>
    /\ out = <<>>
    /\ errlog = <<>>
    /\ trace = <<>>
    /\ syscalls = <<>>
    /\ faults = 0
    /\ \E l \in Lines : probe = [line |-> l, n |-> 0, hist |-> <<l>>]

\* one more run of the rewrite over the content
ApplyRewrite ==
    /\ pc = "fixline"
    /\ probe.n < MaxApply
    /\ probe' = [line |-> rewrite(probe.line), n |-> probe.n + 1,
                 hist |-> Append(probe.hist, rewrite(probe.line))]
    /\ UNCHANGED <<argv, config, pc, optIdx, argIdx, bad, exitCode, stack, fx,
                   fs, out, errlog, trace, syscalls, faults>>

NextLine ==
    ApplyRewrite

SpecLine == InitLine /\ [][NextLine]_vars

(***************************************************************************)
(* The program run on files whose bodies are around one and several chunks *)
(* of the copy loop.                                                       *)
(***************************************************************************)
\* a body of n bytes without a newline, of period 3
Body(n) ==
    [i \in 1..n |-> <<"x", "y", "z">>[(i % 3) + 1]]

\* one byte less than a chunk, whole chunks, and one byte more than them
BodyLens ==
    {bufsize - 1, MaxChunks * bufsize + 1} \cup {k * bufsize : k \in 1..MaxChunks}

FSCopy(n) ==
    (P_d :> Dir) @@
    (P_a :> File(L_python_s \o Body(n), 33261, 5, 6)) @@
    (P_sub :> Dir) @@
    (P_c :> File(L_python_eof, 33188, 0, 3))

OptListsCopy ==
    { <<Opt("i", I_python)>>,
      <<Opt("p", <<>>), Opt("i", I_python)>>,
      <<Opt("n", <<>>), Opt("i", I_python), Opt("k", <<>>)>> }

InitCopy ==
    /\ argv \in [opts : OptListsCopy, args : {<<P_d>>, <<P_a, P_d>>}]
    /\ NEW_INTERPRETER = <<>>
    /\ PRESERVE_TIMESTAMPS = FALSE
    /\ CREATE_BACKUP = TRUE
    /\ KEEP_FLAGS = FALSE
    /\ ADD_FLAGS = <<>>
    /\ pc = "getopt"
    /\ optIdx = 1
    /\ argIdx = 1
    /\ bad = 0
    /\ exitCode = -1
    /\ stack = <<>>
    /\ fx = IdleFx
    /\ \E n \in BodyLens : fs = FSCopy(n)
    /\ out = <<>>
    /\ errlog = <<>>
    /\ trace = <<>>
    /\ syscalls = <<>>
    /\ faults = 0
    /\ probe = NoProbe

SpecCopy == InitCopy /\ [][Next]_vars

(***************************************************************************)
(* Properties of the rewrite (SpecLine).                                   *)
(***************************************************************************)
NoNewline(s) ==
    ~contains(s, NL)

\* the configurations under which a second run finds flags to add again:
\* -k together with -a, or with an interpreter path that holds " -"
Accumulates ==
    KEEP_FLAGS /\ (ADD_FLAGS # <<>> \/ contains(NEW_INTERPRETER[1], SPHYPHEN))

\* C1, as claimed: under every configuration the second run of the rewrite
\* changes nothing: the content after two runs is the content after one.
C1_Idempotent ==
    (pc = "fixline" /\ probe.n >= 2) => probe.hist[3] = probe.hist[2]

\* C1, amended: the second run changes nothing when neither the interpreter
\* path nor the added flags hold a newline and the configuration is not -k
\* together with a non-empty -a or with an interpreter path holding " -".
C1_IdempotentWithoutAccumulation ==
    (/\ pc = "fixline"
     /\ probe.n >= 2
     /\ NoNewline(NEW_INTERPRETER[1])
     /\ NoNewline(ADD_FLAGS)
     /\ ~Accumulates)
    => probe.hist[3] = probe.hist[2]

\* a first run that rewrote a line with kept and added flags apart, and a
\* second run over its result
C1_Witness ==
    /\ pc = "fixline"
    /\ probe.n >= 2
    /\ NoNewline(NEW_INTERPRETER[1])
    /\ ~Accumulates
    /\ KEEP_FLAGS
    /\ probe.hist[2] # probe.hist[1]
    /\ contains(probe.hist[1], <<" ", "-", "s", " ", "-">>)
    /\ probe.hist[3] = probe.hist[2]

\* the line without its trailing newlines
Stripped(l) ==
    SubSeq(l, 1, CHOOSE k \in 0..Len(l) :
                    /\ \A j \in (k + 1)..Len(l) : l[j] = "\n"
                    /\ k = 0 \/ l[k] # "\n")

\* the places of the first space-hyphen of s
FirstFlagAt(s) ==
    {k \in 1..(Len(s) - 1) :
        /\ s[k] = " " /\ s[k + 1] = "-"
        /\ \A j \in 1..(k - 1) : ~(s[j] = " " /\ s[j + 1] = "-")}

\* the text after the first space-hyphen of the line, to its end
OldFlagsOf(l) ==
    IF FirstFlagAt(Stripped(l)) = {} THEN <<>>
    ELSE SubSeq(Stripped(l), (CHOOSE k \in FirstFlagAt(Stripped(l)) : TRUE) + 2,
                Len(Stripped(l)))

\* ' -' + added flags + old flags when either is non-empty, else nothing
ExpectedSuffix(l) ==
    LET old == IF KEEP_FLAGS THEN OldFlagsOf(l) ELSE <<>>
    IN  IF old # <<>> \/ ADD_FLAGS # <<>> THEN <<" ", "-">> \o ADD_FLAGS \o old
        ELSE <<>>

IsPythonShebang(l) ==
    /\ Len(l) >= 2
    /\ l[1] = "#"
    /\ l[2] = "!"
    /\ \E i \in 1..(Len(l) - 5) : SubSeq(l, i, i + 5) = PYTHON

\* C10: for every Python shebang line the new first line is '#! ', the
\* interpreter, the suffix and a newline, where the suffix is ' -' + added
\* flags + old flags when either is non-empty and empty otherwise; the
\* line of the example becomes the line the example gives.
C10_FlagComposition ==
    pc = "fixline" =>
        \A k \in 1..probe.n :
            LET l == readline(probe.hist[k])
            IN  IsPythonShebang(l) =>
                  /\ probe.hist[k + 1] =
                        <<"#", "!", " ">> \o NEW_INTERPRETER[1] \o ExpectedSuffix(l)
                        \o <<"\n">> \o From(probe.hist[k], Len(l))
                  /\ (/\ l = L_example
                      /\ NEW_INTERPRETER[1] = I_opt
                      /\ KEEP_FLAGS
                      /\ ADD_FLAGS = A_sv) => probe.hist[k + 1] = R_example

\* the example of the claim has been rewritten
C10_Witness ==
    /\ pc = "fixline"
    /\ probe.n >= 1
    /\ probe.hist[1] = L_example
    /\ NEW_INTERPRETER[1] = I_opt
    /\ KEEP_FLAGS
    /\ ADD_FLAGS = A_sv
    /\ probe.hist[2] = R_example

(***************************************************************************)
(* Properties of a run of the program (Spec).                              *)
(***************************************************************************)
\* the OS calls of the running fix call
SysSince ==
    SubSeq(syscalls, fx.sys0 + 1, Len(syscalls))

\* the running fix call issued `call` on `path` and it succeeded
Did(call, path) ==
    \E k \in 1..Len(SysSince) :
        SysSince[k].call = call /\ SysSince[k].path = path /\ SysSince[k].ok

\* the running fix call issued `call` on `path` and it failed
Failed(call, path) ==
    \E k \in 1..Len(SysSince) :
        SysSince[k].call = call /\ SysSince[k].path = path /\ ~SysSince[k].ok

\* the bytes of the file when the running fix call began
OldData ==
    fx.old[Follow(fx.old, fx.filename)].data

\* <original>~ exists and holds the bytes the original had
BackupHolds ==
    /\ Exists(fs, LResolve(fs, BackupName(fx.filename)))
    /\ fs[LResolve(fs, BackupName(fx.filename))].kind = "file"
    /\ fs[LResolve(fs, BackupName(fx.filename))].data = OldData

\* C2, as claimed: with backups enabled, once fix has put the rewritten file
\* in place, <original>~ exists and holds the original bytes, whatever the
\* outcome of the chmod and rename steps.
C2_BackupAlways ==
    (/\ fx.pc = "ret"
     /\ CREATE_BACKUP
     /\ Did("rename", fx.tempname))
    => BackupHolds

\* C2, amended: with backups enabled, once the rename of the original to
\* <original>~ has succeeded, <original>~ exists and holds the original
\* bytes when fix returns, whatever the outcome of chmod, of the final
\* rename and of the timestamp restore; when that rename fails, fix goes
\* on and leaves whatever was at <original>~ as it was.
C2_BackupWhenRenamed ==
    (fx.pc = "ret" /\ CREATE_BACKUP) =>
        /\ Did("rename", fx.filename) => BackupHolds
        /\ Failed("rename", fx.filename) =>
              LET b == LResolve(fs, BackupName(fx.filename))
              IN  IF Exists(fx.old, b) THEN Exists(fs, b) /\ fs[b] = fx.old[b]
                  ELSE ~Exists(fs, b)

\* the backup was made and the final rename failed after it
C2_Witness ==
    /\ fx.pc = "ret"
    /\ CREATE_BACKUP
    /\ Did("rename", fx.filename)
    /\ Failed("rename", fx.tempname)
    /\ BackupHolds

\* the places of the arguments that are symbolic links
LinkArgs ==
    {i \in 1..Len(argv.args) : islink(FS0, argv.args[i])}

\* those among them that do not lead to a directory
FileLinkArgs ==
    {i \in LinkArgs : ~isdir(FS0, argv.args[i])}

TopCalls ==
    {k \in 1..Len(trace) : trace[k].top}

InErrlog(m) ==
    \E k \in 1..Len(errlog) : errlog[k] = m

\* what holds of the arguments at the places S that are symbolic links
LinksRejected(S) ==
    /\ \A k \in TopCalls : \A i \in S : trace[k].path # argv.args[i]
    /\ \A i \in S : Exists(fs, argv.args[i]) /\ fs[argv.args[i]] = FS0[argv.args[i]]
    /\ (pc = "exited" /\ exitCode # 2 /\ S # {}) =>
          /\ exitCode = 1
          /\ \A i \in S : InErrlog(Msg("symlink", argv.args[i]))

\* C3, as claimed: for every argument that is a symbolic link, to a file, to
\* a directory or dangling, main calls neither fix nor recursedown, the link
\* stays as it is, an error is written and the exit code is not zero.
C3_LinkArgsRejected ==
    LinksRejected(LinkArgs)

\* C3, amended: that holds of every argument that is a symbolic link not
\* leading to a directory (to a file, or dangling); a symbolic link to a
\* directory given as an argument is traversed: main calls recursedown on it.
C3_FileLinkArgsRejected ==
    /\ LinksRejected(FileLinkArgs)
    /\ (pc = "exited" /\ exitCode # 2) =>
          \A i \in LinkArgs \ FileLinkArgs :
              \E k \in TopCalls :
                  trace[k].op = "recursedown" /\ trace[k].path = argv.args[i]

\* a run over a link to a directory and a link to a file has ended
C3_Witness ==
    /\ pc = "exited"
    /\ argv.args = <<P_ld, P_lf>>
    /\ exitCode = 1
    /\ InErrlog(Msg("symlink", P_lf))
    /\ \E k \in TopCalls : trace[k].op = "recursedown" /\ trace[k].path = P_ld

\* C4: while fix runs on a file whose first line does not start with #! or
\* does not contain python, and when it returns, the file system is what it
\* was when fix was called: the content is unchanged byte for byte.
C4_NonPythonUntouched ==
    (/\ fx.pc # "idle"
     /\ CanOpenRead(fx.old, fx.filename)
     /\ ~IsPythonShebang(readline(OldData)))
    => fs = fx.old

\* fix returns from a file with a #! line that is not python's, under -k -a
C4_Witness ==
    /\ fx.pc = "ret"
    /\ fx.opened
    /\ fx.filename = P_b
    /\ KEEP_FLAGS
    /\ ADD_FLAGS # <<>>
    /\ fs[P_b].data = L_sh \o BODY

\* C5: when the new first line is the first line read, fix changes nothing
\* in the file system and issues no OS call but the open for reading, it
\* reports "no change" and it returns 0.
C5_NoChangeNoMutation ==
    (/\ fx.pc = "ret"
     /\ fx.opened
     /\ fixline(readline(OldData)) = readline(OldData))
    => /\ fs = fx.old
       /\ SysSince = <<Sys("open_rb", fx.filename, <<>>, TRUE)>>
       /\ fx.ret = 0
       /\ out # <<>>
       /\ out[Len(out)] = Msg("no change", fx.filename)

\* fix returns from a python shebang line that is already the new one
C5_Witness ==
    /\ fx.pc = "ret"
    /\ fx.opened
    /\ IsPythonShebang(fx.line)
    /\ fixline(readline(OldData)) = readline(OldData)
    /\ fs = fx.old
    /\ fx.ret = 0

\* the diagnostics that are errors (the others are warnings, debug lines
\* and usage messages)
ErrorKinds ==
    {"symlink", "cannot list", "cannot open", "cannot create", "rename failed",
     "timestamp failed"}

ErrorReported ==
    \E k \in 1..Len(errlog) : errlog[k].kind \in ErrorKinds

\* when the run ends past the usage tests, the exit code is 1 if an error
\* was reported and 0 if none was
ExitCodeTellsErrors ==
    (pc = "exited" /\ exitCode # 2) => exitCode = (IF ErrorReported THEN 1 ELSE 0)

\* a failure flag that is set stays set, in main and in every recursedown
\* frame, and a frame that returns with it set sets its caller's
FlagsStaySet ==
    /\ bad = 1 => bad' = 1
    /\ \A k \in 1..Len(stack) :
          (k <= Len(stack') /\ stack[k].bad = 1) => stack'[k].bad = 1
    /\ (Len(stack') < Len(stack) /\ stack[Len(stack)].bad = 1) =>
          IF stack' = <<>> THEN bad' = 1 ELSE stack'[Len(stack')].bad = 1
    /\ (fx.pc = "ret" /\ fx.ret # 0 /\ fx'.pc = "idle") =>
          IF stack = <<>> THEN bad' = 1 ELSE stack'[Len(stack')].bad = 1

\* C6: the exit code is 0 exactly when no target reported an error and 1
\* exactly when at least one did (a symlink argument, a file that cannot be
\* opened, a temp file that cannot be written, a failed final rename, a
\* failed timestamp restore, a directory that cannot be listed), and a
\* failure flag, once set, is never cleared by a later success.
C6_ExitCode ==
    []ExitCodeTellsErrors /\ [][FlagsStaySet]_vars

\* a run ended with exit code 1 after the temp file of d/a.py could not be
\* written and d/sub/c.py was rewritten after it
C6_Witness ==
    /\ pc = "exited"
    /\ exitCode = 1
    /\ InErrlog(Msg("cannot create", TempName(P_a)))
    /\ \E k \in 1..Len(out) : out[k] = Msg("updating", P_c)
    /\ Exists(fs, BackupName(P_c))

\* the arguments that were handled: a call from main, or the symlink error
Handled ==
    Cardinality(TopCalls)
    + Cardinality({k \in 1..Len(errlog) : errlog[k].kind = "symlink"})

\* after place k of the history, `op` was called on `path`
CalledAfter(k, op, path) ==
    \E m \in (k + 1)..Len(trace) : trace[m].op = op /\ trace[m].path = path

\* every candidate file and every subdirectory of a listing was gone into
ListingDone(k) ==
    \A n \in 1..Len(trace[k].names) :
        LET name == trace[k].names[n]
            p == join(trace[k].path, name)
            q == LResolve(FS0, p)
        IN  /\ (Exists(FS0, q) /\ FS0[q].kind = "file" /\ ispython(name))
                  => CalledAfter(k, "fix", p)
            /\ (Exists(FS0, q) /\ FS0[q].kind = "dir")
                  => CalledAfter(k, "recursedown", p)

\* C7: a failure never stops the run: when it ends, every argument was
\* handled, and for every directory that was listed, every candidate file
\* in it was passed to fix and every subdirectory to recursedown, whatever
\* failed before them.
C7_RunGoesOn ==
    (pc = "exited" /\ exitCode # 2) =>
        /\ Handled = Len(argv.args)
        /\ \A i \in 1..Len(argv.args) :
              \/ InErrlog(Msg("symlink", argv.args[i]))
              \/ \E k \in TopCalls : trace[k].path = argv.args[i]
        /\ \A k \in 1..Len(trace) : trace[k].op = "list" => ListingDone(k)

\* a run ended in which a symlink argument was refused, then the final
\* rename of d/a.py failed, and d/b.py and d/sub/c.py were still gone into
C7_Witness ==
    /\ pc = "exited"
    /\ argv.args = <<P_dg, P_d>>
    /\ InErrlog(Msg("symlink", P_dg))
    /\ InErrlog(Msg("rename failed", P_a))
    /\ \E k \in 1..Len(trace) :
          /\ trace[k].op = "fix" /\ trace[k].path = P_a
          /\ CalledAfter(k, "fix", P_b)
          /\ CalledAfter(k, "fix", P_c)

\* the value of the last -i of the command line
LastInterpreter ==
    argv.opts[CHOOSE k \in 1..Len(argv.opts) :
                 /\ argv.opts[k].o = "i"
                 /\ \A m \in (k + 1)..Len(argv.opts) : argv.opts[m].o # "i"].a

\* the command line is wrong: an unknown option, no -i, an -i that is not
\* an absolute path, or no target
UsageWrong ==
    \/ \E k \in 1..Len(argv.opts) : argv.opts[k].o \notin {"i", "a", "k", "p", "n"}
    \/ \A k \in 1..Len(argv.opts) : argv.opts[k].o # "i"
    \/ LastInterpreter = <<>>
    \/ LastInterpreter[1] # "/"
    \/ argv.args = <<>>

\* nothing was read, created, renamed or deleted, and neither fix nor
\* recursedown was called
NothingTouched ==
    /\ trace = <<>>
    /\ syscalls = <<>>
    /\ fs = FS0
    /\ fx.pc = "idle"
    /\ stack = <<>>

\* C8: with a wrong command line main never gets to the arguments: nothing
\* is touched, and when the run ends the exit code is 2.
C8_UsageErrorFatal ==
    UsageWrong =>
        /\ NothingTouched
        /\ pc \in {"getopt", "opts", "exited"}
        /\ pc = "exited" => exitCode = 2

\* a run with a good -i and no target has ended
C8_Witness ==
    /\ pc = "exited"
    /\ exitCode = 2
    /\ argv.args = <<>>
    /\ NEW_INTERPRETER = <<I_python>>
    /\ NothingTouched

HasWhitespace(flags) ==
    \E k \in 1..Len(flags) : flags[k] \in {" ", "\t", "\n", "\r"}

\* C9, as claimed: with an -a argument that holds a whitespace character,
\* a space, a tab or another, nothing is touched and the run ends with exit
\* code 2; so the added flags hold no whitespace while files are processed.
C9_WhitespaceRejected ==
    /\ (\E k \in 1..Len(argv.opts) :
            argv.opts[k].o = "a" /\ HasWhitespace(argv.opts[k].a))
       => /\ NothingTouched
          /\ pc = "exited" => exitCode = 2
    /\ (fx.pc # "idle" \/ stack # <<>>) => ~HasWhitespace(ADD_FLAGS)

(***************************************************************************)
(* Properties of the rewrite (SpecLine): the kept flags, the new line.     *)
(***************************************************************************)
\* the places k of s where a space-hyphen starts and none starts before
SplitsAtFirstFlag(s, k) ==
    /\ k \in 1..(Len(s) - 1)
    /\ SubSeq(s, k, k + 1) = <<" ", "-">>
    /\ ~\E j \in 1..(k - 1) : SubSeq(s, j, j + 1) = <<" ", "-">>

\* the line without the newline that ends it
Chomp(l) ==
    IF l # <<>> /\ l[Len(l)] = "\n" THEN SubSeq(l, 1, Len(l) - 1) ELSE l

\* C11: with -k, what the new first line keeps of a Python shebang line is
\* the text after its first space-hyphen, to the end of the line without
\* its newline (the hyphen itself is not kept, the new line brings its
\* own); a line without space-hyphen gives nothing to keep.
C11_KeptFragment ==
    (pc = "fixline" /\ KEEP_FLAGS) =>
        \A n \in 1..probe.n :
            LET l == readline(probe.hist[n])
                rest == From(probe.hist[n], Len(l))
                head == <<"#", "!", " ">> \o NEW_INTERPRETER[1]
                added == IF ADD_FLAGS = <<>> THEN <<>> ELSE <<" ", "-">> \o ADD_FLAGS
            IN  IsPythonShebang(l) =>
                  /\ (~\E k \in 1..Len(l) : SplitsAtFirstFlag(Chomp(l), k))
                        => probe.hist[n + 1] = head \o added \o <<"\n">> \o rest
                  /\ \A k \in 1..Len(l) :
                        SplitsAtFirstFlag(Chomp(l), k) =>
                          LET kept == SubSeq(Chomp(l), k + 2, Len(Chomp(l)))
                          IN  probe.hist[n + 1] =
                                IF kept = <<>> THEN head \o added \o <<"\n">> \o rest
                                ELSE head \o <<" ", "-">> \o ADD_FLAGS \o kept
                                     \o <<"\n">> \o rest

\* under -k alone, a line with two flag groups was rewritten: the second
\* group is kept with its space-hyphen, the first without
C11_Witness ==
    /\ pc = "fixline"
    /\ probe.n >= 1
    /\ KEEP_FLAGS
    /\ ADD_FLAGS = <<>>
    /\ NEW_INTERPRETER[1] = I_sh
    /\ probe.hist[1] = SHEBANG \o I_python \o <<" ", "-", "s", " ", "-", "s", "\n">>
    /\ probe.hist[2] = <<"#", "!", " ">> \o I_sh \o <<" ", "-", "s", " ", "-", "s", "\n">>

\* C12: the new first line of a Python shebang line is '#! ', the new
\* interpreter path, a suffix that is empty or starts with space-hyphen, and
\* a newline: one space after #! whatever the spacing of the line was;
\* without -k the suffix comes from -a alone, nothing of the line is kept.
C12_NewLineShape ==
    pc = "fixline" =>
        \A n \in 1..probe.n :
            LET l == readline(probe.hist[n])
                rest == From(probe.hist[n], Len(l))
                new == probe.hist[n + 1]
                head == <<"#", "!", " ">> \o NEW_INTERPRETER[1]
                end == Len(new) - Len(rest)
                suffix == SubSeq(new, Len(head) + 1, end - 1)
            IN  IsPythonShebang(l) =>
                  /\ end > Len(head)
                  /\ SubSeq(new, 1, Len(head)) = head
                  /\ new[4] # " "
                  /\ new[end] = "\n"
                  /\ SubSeq(new, end + 1, Len(new)) = rest
                  /\ suffix = <<>> \/ SubSeq(suffix, 1, 2) = <<" ", "-">>
                  /\ ~KEEP_FLAGS =>
                        suffix = (IF ADD_FLAGS = <<>> THEN <<>>
                                  ELSE <<" ", "-">> \o ADD_FLAGS)

\* without -k and -a, a line with no space after #!, with flags and with no
\* newline was rewritten
C12_Witness ==
    /\ pc = "fixline"
    /\ probe.n >= 1
    /\ ~KEEP_FLAGS
    /\ ADD_FLAGS = <<>>
    /\ NEW_INTERPRETER[1] = I_opt
    /\ probe.hist[1] = SHEBANG \o I_python \o <<" ", "-", "s">>
    /\ probe.hist[2] = <<"#", "!", " ">> \o I_opt \o <<"\n">>

(***************************************************************************)
(* Properties of fix (Spec): mode, content, times, failures.               *)
(***************************************************************************)
\* the file fix was called on, as it was when fix began
OldFile ==
    fx.old[Follow(fx.old, fx.filename)]

\* the file at the original name now
NewFile ==
    fs[Follow(fs, fx.filename)]

\* fix put the temp file at the original name
Rewritten ==
    fx.pc = "ret" /\ Did("rename", fx.tempname)

\* nothing but the stat or the chmod failed in the running fix call
OnlyChmodFailed ==
    \A k \in 1..Len(SysSince) : SysSince[k].ok \/ SysSince[k].call \in {"stat", "chmod"}

\* C13: when fix has put the rewritten file in place and its chmod went
\* through, the permission bits of the file at the original name are those
\* of the original file; a failed stat or chmod is reported as a warning,
\* fix goes on to the renames, and it returns 0 when nothing else failed.
C13_ModePreserved ==
    Rewritten =>
        /\ Did("chmod", fx.tempname) =>
              /\ Exists(fs, Follow(fs, fx.filename))
              /\ PermBits(NewFile.mode) = PermBits(OldFile.mode)
        /\ (Failed("chmod", fx.tempname) \/ Failed("stat", fx.filename)) =>
              /\ InErrlog(Msg("chmod warning", fx.tempname))
              /\ OnlyChmodFailed => fx.ret = 0

\* d/t, of mode 0700, was rewritten with its chmod done: the new file has
\* mode 0700 and not the mode a new file is created with
C13_Witness ==
    /\ Rewritten
    /\ fx.filename = P_t
    /\ Did("chmod", fx.tempname)
    /\ PermBits(OldFile.mode) = 448
    /\ PermBits(NewFile.mode) = 448
    /\ NewFile.data # OldFile.data

\* the length of the first line of the data: up to its first newline,
\* the newline included, or all of it
FirstLineLen(data) ==
    IF \E k \in 1..Len(data) : data[k] = "\n"
    THEN CHOOSE k \in 1..Len(data) :
            data[k] = "\n" /\ \A j \in 1..(k - 1) : data[j] # "\n"
    ELSE Len(data)

\* the writes of chunks the running fix call made after the first line
ChunkWrites ==
    Cardinality({k \in 1..Len(SysSince) : SysSince[k].call = "write" /\ SysSince[k].ok}) - 1

\* C14: when fix has put the rewritten file in place, the content at the
\* original name is the new first line followed by the bytes of the
\* original file after its first line, all of them and in their order,
\* whether they fill less than one chunk of 8 KiB, whole chunks or more.
C14_BodyCopied ==
    Rewritten =>
        LET body == SubSeq(OldData, FirstLineLen(OldData) + 1, Len(OldData))
        IN  /\ fx.line = SubSeq(OldData, 1, FirstLineLen(OldData))
            /\ fx.fixed # fx.line
            /\ NewFile.data = fx.fixed \o body
            /\ Len(NewFile.data) = Len(fx.fixed) + Len(OldData) - Len(fx.line)

\* a file whose body is one byte more than whole chunks was rewritten, in
\* one write more than there are whole chunks
C14_Witness ==
    /\ Rewritten
    /\ fx.filename = P_a
    /\ Len(OldData) = Len(L_python_s) + MaxChunks * bufsize + 1
    /\ ChunkWrites = MaxChunks + 1
    /\ NewFile.data = fx.fixed \o Body(MaxChunks * bufsize + 1)

\* C15, as claimed, in the calls whose stat of the original went through:
\* under -p, when fix has put the rewritten file in place and returns 0, the
\* modification and access times of the file at the original name are those
\* of the original file; a failed os.utime is reported and fix returns 1.
C15_TimesRestored ==
    (Rewritten /\ PRESERVE_TIMESTAMPS /\ Did("stat", fx.filename)) =>
        /\ fx.ret = 0 =>
              /\ NewFile.mtime = OldFile.mtime
              /\ NewFile.atime = OldFile.atime
        /\ Failed("utime", fx.filename) =>
              /\ fx.ret = 1
              /\ InErrlog(Msg("timestamp failed", fx.filename))

\* the final rename of the running fix call failed
RenameFailed ==
    fx.pc = "ret" /\ Failed("rename", fx.tempname)

\* the temp file is there, with the new first line and the body
TempLeft ==
    /\ Exists(fs, LResolve(fs, fx.tempname))
    /\ fs[LResolve(fs, fx.tempname)].kind = "file"
    /\ fs[LResolve(fs, fx.tempname)].data =
          fx.fixed \o SubSeq(OldData, FirstLineLen(OldData) + 1, Len(OldData))

\* C16, as claimed: whenever the final rename fails, fix reports it and
\* returns 1, the temp file is left and there is no file at the original name.
C16_RenameFailureNoOriginal ==
    RenameFailed =>
        /\ fx.ret = 1
        /\ InErrlog(Msg("rename failed", fx.filename))
        /\ TempLeft
        /\ ~Exists(fs, LResolve(fs, fx.filename))

\* C16, amended: whenever the final rename fails, fix reports it and
\* returns 1 and the temp file is left; there is no file at the original
\* name when the step before (the backup rename, the delete under -n) went
\* through, and when that step failed the original file is still at its
\* name, as it was.
C16_RenameFailure ==
    RenameFailed =>
        /\ fx.ret = 1
        /\ InErrlog(Msg("rename failed", fx.filename))
        /\ TempLeft
        /\ (Did("rename", fx.filename) \/ Did("remove", fx.filename))
              => ~Exists(fs, LResolve(fs, fx.filename))
        /\ (Failed("rename", fx.filename) \/ Failed("remove", fx.filename))
              => /\ Exists(fs, LResolve(fs, fx.filename))
                 /\ fs[LResolve(fs, fx.filename)] = OldFile

\* under -n the original was deleted and the final rename failed: the temp
\* file is all that is left of the file
C16_Witness ==
    /\ RenameFailed
    /\ ~CREATE_BACKUP
    /\ Did("remove", fx.filename)
    /\ TempLeft
    /\ ~Exists(fs, LResolve(fs, fx.filename))
    /\ ~Exists(fs, LResolve(fs, BackupName(fx.filename)))
    /\ fx.ret = 1

\* the running fix call issued `call`, with whatever outcome
Issued(call) ==
    \E k \in 1..Len(SysSince) : SysSince[k].call = call

\* the source could not be opened, or the temp file could not be created
\* or written
CopyFailed ==
    /\ fx.pc = "ret"
    /\ \/ Failed("open_rb", fx.filename)
       \/ Failed("open_wb", fx.tempname)
       \/ Failed("write", fx.tempname)
       \/ Failed("close", fx.tempname)

\* what is at the original name is what was there when fix began
OriginalUntouched ==
    LET q == Follow(fx.old, fx.filename)
    IN  /\ Follow(fs, fx.filename) = q
        /\ Exists(fs, q) = Exists(fx.old, q)
        /\ Exists(fs, q) => fs[q] = fx.old[q]

\* C17: when the source cannot be opened, or the temp file cannot be
\* created or written, fix reports the error and returns 1, it issues no
\* stat, chmod, rename, remove or utime, and what is at the original name
\* is left as it was: the same file with the same bytes.
C17_CopyFailureLeavesOriginal ==
    CopyFailed =>
        /\ fx.ret = 1
        /\ IF Failed("open_rb", fx.filename)
           THEN InErrlog(Msg("cannot open", fx.filename))
           ELSE InErrlog(Msg("cannot create", fx.tempname))
        /\ \A c \in {"stat", "chmod", "rename", "remove", "utime"} : ~Issued(c)
        /\ OriginalUntouched
        /\ ~Exists(fs, LResolve(fs, BackupName(fx.filename)))
              \/ (/\ Exists(fx.old, LResolve(fs, BackupName(fx.filename)))
                  /\ fs[LResolve(fs, BackupName(fx.filename))]
                        = fx.old[LResolve(fs, BackupName(fx.filename))])

\* a write to the temp file of d/a.py failed after its first line was
\* written: d/a.py has its bytes
C17_Witness ==
    /\ CopyFailed
    /\ fx.filename = P_a
    /\ Did("write", fx.tempname)
    /\ Failed("write", fx.tempname)
    /\ fs[P_a].data = L_python_s \o BODY
    /\ fx.ret = 1

\* the running fix call got a warning: the stat or chmod, the backup
\* rename or the delete failed
Warned ==
    \/ Failed("stat", fx.filename)
    \/ Failed("chmod", fx.tempname)
    \/ Failed("rename", fx.filename)
    \/ Failed("remove", fx.filename)

WarningKinds ==
    {"chmod warning", "backup warning", "remove warning"}

\* C18: a warning (chmod, backup rename or delete failed) does not end the
\* work on the file: fix still issues the final rename of the temp file,
\* and it returns 0 unless that rename or the timestamp restore failed; a
\* run whose only diagnostics on files are warnings ends with exit code 0.
C18_WarningGoesOn ==
    /\ (fx.pc = "ret" /\ Warned) =>
          /\ Issued("rename")
          /\ \E k \in 1..Len(SysSince) :
                SysSince[k].call = "rename" /\ SysSince[k].path = fx.tempname
          /\ (Did("rename", fx.tempname) /\ ~Failed("utime", fx.filename))
                => fx.ret = 0
    /\ (/\ pc = "exited"
        /\ exitCode # 2
        /\ \A k \in 1..Len(errlog) : errlog[k].kind \in WarningKinds \cup {"dbg"})
       => exitCode = 0

\* a run ended with exit code 0 after the backup of d/t failed and d/t was
\* rewritten all the same
C18_Witness ==
    /\ pc = "exited"
    /\ exitCode = 0
    /\ InErrlog(Msg("backup warning", P_t))
    /\ fs[P_t].data = <<"#", "!", " ">> \o I_python \o NL \o BODY
    /\ fs[P_t_bak].kind = "dir"

(***************************************************************************)
(* Properties of recursedown (Spec): the order of the walk, the links.     *)
(***************************************************************************)
\* a comes before b in the order of the code points, a shorter name before
\* the longer ones it begins
NameBefore(a, b) ==
    /\ a # b
    /\ \/ Len(a) < Len(b) /\ SubSeq(b, 1, Len(a)) = a
       \/ \E i \in 1..Len(a) :
             /\ i <= Len(b)
             /\ SubSeq(a, 1, i - 1) = SubSeq(b, 1, i - 1)
             /\ Code[a[i]] < Code[b[i]]

\* the path q is the directory p or below it
Within(p, q) ==
    Len(q) >= Len(p) /\ SubSeq(q, 1, Len(p)) = p

\* the history from the listing at place k to the next call from main
WalkOf(k) ==
    LET tops == {j \in (k + 1)..Len(trace) : trace[j].top}
    IN  {m \in (k + 1)..Len(trace) : \A j \in tops : m < j}

\* C19: in every directory the names are taken in lexicographic order: the
\* files are fixed in that order, every subdirectory is entered after the
\* last file of the directory, in that order too, and the walk of one
\* subdirectory is over before the next one is entered (depth first).
C19_WalkOrder ==
    \A k \in 1..Len(trace) :
        trace[k].op = "list" =>
          LET walk == WalkOf(k)
              sons == {m \in walk : Front(trace[m].path) = trace[k].path}
              fixes == {m \in sons : trace[m].op = "fix"}
              dives == {m \in sons : trace[m].op = "recursedown"}
          IN  /\ \A i \in 1..(Len(trace[k].names) - 1) :
                    NameBefore(trace[k].names[i], trace[k].names[i + 1])
              /\ \A m, n \in fixes :
                    m < n => NameBefore(Last(trace[m].path), Last(trace[n].path))
              /\ \A m, n \in dives :
                    m < n => NameBefore(Last(trace[m].path), Last(trace[n].path))
              /\ \A m \in fixes : \A n \in dives : m < n
              /\ \A j \in walk :
                    Within(trace[k].path, trace[j].path) =>
                      \/ j \in fixes
                      \/ \E m \in dives :
                            /\ m <= j
                            /\ Within(trace[m].path, trace[j].path)
                            /\ \A n \in dives : m < n => j < n

\* d was walked to its end: a.py, b.py, e.py, then sub with its two files,
\* then t~
C19_Witness ==
    /\ pc = "exited"
    /\ argv.args = <<P_d>>
    /\ \E k \in 1..Len(trace) :
          /\ trace[k].op = "list" /\ trace[k].path = P_d
          /\ Len(trace) = k + 9
          /\ [j \in 1..9 |-> trace[k + j].path] =
                <<P_a, P_b, P_e, P_sub, P_sub, P_c, P_c_nl, P_t_bak, P_t_bak>>

\* the symbolic links of the tree that are in a directory
ListedLinks ==
    {q \in DOMAIN FS0 : FS0[q].kind = "link" /\ Len(q) > 1}

\* no call and no diagnostic is about a symbolic link found in a listing
LinksLeftOut ==
    /\ \A k \in 1..Len(trace) : LResolve(FS0, trace[k].path) \notin ListedLinks
    /\ \A k \in 1..Len(errlog) : errlog[k].path \notin ListedLinks
    /\ \A k \in 1..Len(out) : out[k].path \notin ListedLinks
    /\ \A q \in ListedLinks : Exists(fs, q) /\ fs[q] = FS0[q]

\* the turn of the loop over the names that finds a symbolic link goes to
\* the next name and does nothing else
SkipsLink ==
    (/\ stack # <<>>
     /\ Top.phase = "names"
     /\ Top.i <= Len(Top.names)
     /\ fx.pc = "idle"
     /\ LResolve(fs, join(Top.dirname, Top.names[Top.i])) \in ListedLinks)
    => /\ stack' = [stack EXCEPT ![Len(stack)].i = @ + 1]
       /\ UNCHANGED <<bad, fx, fs, out, errlog, trace, syscalls>>

\* C20: a symbolic link found while a directory is listed, to a file or to
\* a directory and whatever its name, is passed over in silence: it is
\* never fixed and never gone into, nothing is written about it, and the
\* failure flags are what they were.
C20_ListedLinksSkipped ==
    []LinksLeftOut /\ [][SkipsLink]_vars

\* d was walked to its end with its two links in the listing, and the run
\* ended with exit code 0
C20_Witness ==
    /\ pc = "exited"
    /\ exitCode = 0
    /\ \E k \in 1..Len(trace) :
          /\ trace[k].op = "list"
          /\ trace[k].path = P_d
          /\ \E i, j \in 1..Len(trace[k].names) :
                trace[k].names[i] = N_l_py /\ trace[k].names[j] = N_ld
    /\ LinksLeftOut

(***************************************************************************)
(* Properties of the walk (Spec): the candidates, a failed listing.        *)
(***************************************************************************)
\* the name is one or more of [a-zA-Z0-9_], then .py, and nothing else
WordThenPy(name) ==
    /\ Len(name) >= 4
    /\ SubSeq(name, Len(name) - 2, Len(name)) = <<".", "p", "y">>
    /\ \A i \in 1..(Len(name) - 3) : name[i] \in WordChars

\* C21, as claimed: the entries recursedown passes to fix are files, neither
\* symbolic links nor directories, whose name is one or more alphanumeric or
\* underscore characters followed by .py; main passes to fix every argument
\* that is a regular file, whatever its name.
C21_CandidateNames ==
    /\ \A k \in 1..Len(trace) :
          (trace[k].op = "fix" /\ ~trace[k].top) =>
            /\ WordThenPy(Last(trace[k].path))
            /\ FS0[LResolve(FS0, trace[k].path)].kind = "file"
    /\ (pc = "exited" /\ exitCode # 2) =>
          \A i \in 1..Len(argv.args) :
              (/\ Exists(FS0, LResolve(FS0, argv.args[i]))
               /\ FS0[LResolve(FS0, argv.args[i])].kind = "file")
              => \E k \in TopCalls : trace[k].op = "fix" /\ trace[k].path = argv.args[i]

\* the places of the history where recursedown was called, and the
\* os.listdir calls issued, one by each of these calls and in their order
DiveEvents ==
    {m \in 1..Len(trace) : trace[m].op = "recursedown"}

ListCalls ==
    {i \in 1..Len(syscalls) : syscalls[i].call = "listdir"}

\* the recursedown call at place m of the history could not list its directory
ListFailedAt(m) ==
    \E i \in ListCalls :
        /\ Cardinality({j \in ListCalls : j <= i}) = Cardinality({n \in DiveEvents : n <= m})
        /\ ~syscalls[i].ok

\* C22: when recursedown cannot list its directory it reports it, it goes
\* into nothing of that directory (what follows in the history is outside
\* of it: a sibling subdirectory or the next argument), the run ends with
\* exit code 1, and every other argument, candidate file and subdirectory
\* of the listed directories is still gone into.
C22_ListFailure ==
    \A m \in DiveEvents :
        ListFailedAt(m) =>
          /\ InErrlog(Msg("cannot list", trace[m].path))
          /\ m < Len(trace) =>
                /\ trace[m + 1].op # "list"
                /\ trace[m + 1].top \/ ~Within(trace[m].path, trace[m + 1].path)
          /\ pc = "exited" =>
                /\ exitCode = 1
                /\ Handled = Len(argv.args)
                /\ \A k \in 1..Len(trace) : trace[k].op = "list" => ListingDone(k)

\* d/sub could not be listed: its files were not fixed, d/t~ was gone into
\* after it and the argument d/t after d, and the exit code is 1
C22_Witness ==
    /\ pc = "exited"
    /\ exitCode = 1
    /\ argv.args = <<P_d, P_t>>
    /\ InErrlog(Msg("cannot list", P_sub))
    /\ \A k \in 1..Len(trace) : ~Within(P_sub, trace[k].path) \/ trace[k].path = P_sub
    /\ \E k \in 1..Len(trace) : trace[k].op = "list" /\ trace[k].path = P_t_bak
    /\ \E k \in TopCalls : trace[k].op = "fix" /\ trace[k].path = P_t

(***************************************************************************)
(* Properties of a whole run (SpecFair).                                   *)
(***************************************************************************)
\* the diagnostics the except clauses of fix and recursedown write
HandlerKinds ==
    {"cannot list", "cannot open", "cannot create", "chmod warning",
     "backup warning", "remove warning", "rename failed", "timestamp failed"}

\* every OS call that failed has its diagnostic, and fix and recursedown
\* are at a place of their code
EveryFailureHandled ==
    /\ Cardinality({i \in 1..Len(syscalls) : ~syscalls[i].ok})
         = Cardinality({k \in 1..Len(errlog) : errlog[k].kind \in HandlerKinds})
    /\ fx.pc \in {"idle", "open", "temp", "head", "copy", "chmod", "backup",
                  "rename", "utime", "ret"}
    /\ \A k \in 1..Len(stack) : stack[k].phase \in {"enter", "names", "subdirs", "ret"}
    /\ pc \in {"getopt", "opts", "args", "exited"}

\* C23: no failure of an OS call goes up as an exception: each failed call
\* is met by the diagnostic of its except clause, and every run, whatever
\* fails in it, ends in sys.exit.
C23_RunEnds ==
    []EveryFailureHandled /\ <>(pc = "exited" /\ exitCode \in {0, 1, 2})

\* a run ended in sys.exit(1) after an os.utime that failed
C23_Witness ==
    /\ pc = "exited"
    /\ exitCode = 1
    /\ \E i \in 1..Len(syscalls) : syscalls[i].call = "utime" /\ ~syscalls[i].ok
    /\ \E k \in 1..Len(errlog) : errlog[k].kind = "timestamp failed"

(***************************************************************************)
(* Properties of fix (Spec): no backup, the order of the steps, the frame. *)
(***************************************************************************)
\* the rest of the original file after its first line
OldBody ==
    SubSeq(OldData, FirstLineLen(OldData) + 1, Len(OldData))

\* C24: under -n fix never touches <original>~: no OS call of fix names it
\* and what is there, or that nothing is there, stays as it was; after a
\* rewrite the original name holds the new content and the original
\* content is at no name where it was not before.
C24_NoBackupUnderN ==
    (fx.pc # "idle" /\ ~CREATE_BACKUP) =>
        LET b == LResolve(fx.old, BackupName(fx.filename))
        IN  /\ Exists(fs, b) = Exists(fx.old, b)
            /\ Exists(fs, b) => fs[b] = fx.old[b]
            /\ \A k \in 1..Len(SysSince) :
                  /\ SysSince[k].path # BackupName(fx.filename)
                  /\ SysSince[k].to # BackupName(fx.filename)
            /\ Rewritten =>
                  /\ NewFile.data = fx.fixed \o OldBody
                  /\ \A q \in DOMAIN fs :
                        (fs[q].kind = "file" /\ fs[q].data = OldData) =>
                          /\ q # Follow(fx.old, fx.filename)
                          /\ Exists(fx.old, q)
                          /\ fx.old[q] = fs[q]

\* under -n d/a.py was deleted and rewritten, and the d/a.py~ that was
\* there before is as it was
C24_Witness ==
    /\ Rewritten
    /\ ~CREATE_BACKUP
    /\ fx.filename = P_a
    /\ Did("remove", P_a)
    /\ fs[P_a].data = fx.fixed \o BODY
    /\ fs[P_a_bak] = FS0[P_a_bak]

\* the place of an OS call in the order of the steps of fix
StepRank(c) ==
    IF c.call = "open_rb" THEN 1
    ELSE IF c.call = "open_wb" THEN 2
    ELSE IF c.call = "write" THEN 3
    ELSE IF c.call = "close" THEN 4
    ELSE IF c.call = "stat" THEN 5
    ELSE IF c.call = "chmod" THEN 6
    ELSE IF c.call = "remove" THEN 7
    ELSE IF c.call = "rename" /\ c.path = fx.filename THEN 7
    ELSE IF c.call = "rename" /\ c.path = fx.tempname THEN 8
    ELSE IF c.call = "utime" THEN 9
    ELSE 0

\* C25: the steps of fix come in one order: the temp file is written to
\* its end and the files are closed while the original is as it was; then
\* the stat and the chmod of the temp file; then the backup rename or the
\* delete of the original; then the rename of the temp file to the
\* original name, which the backup rename or delete always precedes.
C25_StepOrder ==
    fx.pc # "idle" =>
        /\ \A i, j \in 1..Len(SysSince) :
              i < j => /\ StepRank(SysSince[i]) > 0
                       /\ StepRank(SysSince[i]) <= StepRank(SysSince[j])
                       /\ StepRank(SysSince[j]) >= 4 => StepRank(SysSince[i]) < StepRank(SysSince[j])
        /\ (\E k \in 1..Len(SysSince) : StepRank(SysSince[k]) >= 5) =>
              /\ Did("close", fx.tempname)
              /\ ~Failed("write", fx.tempname)
        /\ (\E k \in 1..Len(SysSince) : StepRank(SysSince[k]) = 8) =>
              /\ \E k \in 1..Len(SysSince) : StepRank(SysSince[k]) = 7
              /\ \E k \in 1..Len(SysSince) : StepRank(SysSince[k]) = 5
        /\ fx.pc \in {"open", "temp", "head", "copy", "chmod", "backup"} => OriginalUntouched
        /\ fx.pc \in {"chmod", "backup", "rename"} => TempLeft

\* under -p fix went through all its steps on d/a.py
C25_Witness ==
    /\ fx.pc = "ret"
    /\ fx.filename = P_a
    /\ fx.ret = 0
    /\ [k \in 1..Len(SysSince) |-> SysSince[k].call] =
          <<"open_rb", "open_wb", "write", "write", "close", "stat", "chmod",
            "rename", "rename", "utime">>
    /\ \A k \in 1..Len(SysSince) : SysSince[k].ok

\* the three paths of a fix call: the file, its backup and its temp file
OriginalPath ==
    Follow(fx.old, fx.filename)

BackupPath ==
    Append(Front(OriginalPath), Last(OriginalPath) \o <<"~">>)

TempPath ==
    Append(Front(OriginalPath), <<"@">> \o Last(OriginalPath))

\* s is the beginning of t
IsPrefix(s, t) ==
    Len(s) <= Len(t) /\ SubSeq(t, 1, Len(s)) = s

\* C26: at every point of fix, whatever failed before, the original name
\* holds the whole original content or the whole new content, or nothing
\* is there; content written in part is under the temp name only.
C26_WholeContentAtName ==
    (fx.pc # "idle" /\ CanOpenRead(fx.old, fx.filename)) =>
        /\ \/ ~Exists(fs, OriginalPath)
           \/ /\ fs[OriginalPath].kind = "file"
              /\ \/ fs[OriginalPath].data = OldData
                 \/ /\ fx.fixed # <<>>
                    /\ fs[OriginalPath].data = fx.fixed \o OldBody
        /\ \A q \in DOMAIN fs :
              (fs[q].kind = "file" /\ q # TempPath) =>
                \/ Exists(fx.old, q) /\ fs[q].data = fx.old[q].data
                \/ fs[q].data = OldData
                \/ fs[q].data = fx.fixed \o OldBody
        /\ (Exists(fs, TempPath) /\ ~Exists(fx.old, TempPath)) =>
              IsPrefix(fs[TempPath].data, fx.fixed \o OldBody)

\* the temp file of d/a.py holds the new first line and not yet the body,
\* and d/a.py holds what it held
C26_Witness ==
    /\ fx.pc = "copy"
    /\ fx.filename = P_a
    /\ fs[TempPath].data = fx.fixed
    /\ fs[TempPath].data # fx.fixed \o OldBody
    /\ fs[P_a].data = OldData

\* the paths an OS call of the running fix call names
NamedBy(c) ==
    {LResolve(fx.old, c.path)} \cup (IF c.to = <<>> THEN {} ELSE {LResolve(fx.old, c.to)})

\* what is at no one of the paths in S is as it was when fix began
FrameBut(S) ==
    \A q \in (DOMAIN fs \cup DOMAIN fx.old) \ S :
        Exists(fs, q) /\ Exists(fx.old, q) /\ fs[q] = fx.old[q]

\* C27, as claimed: fix touches the three paths dir/name, dir/name~ and
\* dir/@name only, and no file that was there before, other than dir/name,
\* loses its content.
C27_OnlyOriginalLosesContent ==
    fx.pc # "idle" =>
        /\ FrameBut({OriginalPath, BackupPath, TempPath})
        /\ \A q \in DOMAIN fx.old \ {OriginalPath} :
              fx.old[q].kind = "file" =>
                Exists(fs, q) /\ fs[q].data = fx.old[q].data

\* C27, amended: every OS call of fix names dir/name, dir/name~ or dir/@name
\* and what is at any other path is as it was; a dir/name~ file that was
\* there before is replaced by the backup and loses its content when the
\* backup rename goes through (so does a dir/@name file when the temp file
\* is opened), and is as it was otherwise.
C27_Frame ==
    fx.pc # "idle" =>
        /\ FrameBut({OriginalPath, BackupPath, TempPath})
        /\ \A k \in 1..Len(SysSince) :
              NamedBy(SysSince[k]) \subseteq {OriginalPath, BackupPath, TempPath}
        /\ (Exists(fx.old, BackupPath) /\ fx.old[BackupPath].kind = "file") =>
              IF Did("rename", fx.filename)
              THEN Exists(fs, BackupPath) /\ fs[BackupPath].data = OldData
              ELSE Exists(fs, BackupPath) /\ fs[BackupPath] = fx.old[BackupPath]

\* d/a.py was rewritten: the d/a.py~ that was there before now holds the
\* bytes of d/a.py, and nothing else in the tree has changed
C27_Witness ==
    /\ Rewritten
    /\ fx.filename = P_a
    /\ fx.old[P_a_bak].data = <<"o", "\n">>
    /\ fs[P_a_bak].data = L_python_s \o BODY
    /\ FrameBut({P_a, P_a_bak})

\* C28, as claimed: when fix returns, the temp file it created is not
\* there any more, unless the final rename failed.
C28_NoTempLeft ==
    (/\ fx.pc = "ret"
     /\ Did("open_wb", fx.tempname)
     /\ ~Exists(fx.old, TempPath)
     /\ ~Failed("rename", fx.tempname))
    => ~Exists(fs, TempPath)

(***************************************************************************)
(* Properties of a run (Spec): a file reached twice, the tool's own files. *)
(***************************************************************************)
\* the file a path of the command line or of the walk leads to
Canon(p) ==
    LResolve(FS0, p)

\* the calls of fix on the file of the running call, before this one (the
\* running call is the last of the history)
EarlierVisits ==
    {k \in 1..(Len(trace) - 1) :
        trace[k].op = "fix" /\ Canon(trace[k].path) = Canon(fx.filename)}

\* an error was reported on the file of the running call or on its temp file
ErrorOnFile ==
    \E k \in 1..Len(errlog) :
        /\ errlog[k].kind \in ErrorKinds
        /\ errlog[k].path # <<>>
        /\ Canon(errlog[k].path) \in
              {Canon(fx.filename),
               Append(Front(Canon(fx.filename)), <<"@">> \o Last(Canon(fx.filename)))}

\* the running call found nothing to change
NoChangeVisit ==
    /\ fx.ret = 0
    /\ fs = fx.old
    /\ SysSince = <<Sys("open_rb", fx.filename, <<>>, TRUE)>>
    /\ out # <<>>
    /\ out[Len(out)] = Msg("no change", fx.filename)

\* C29, as claimed: every visit of a file after its first one in a run
\* reports no change and leaves the file and its backup as they were.
C29_LaterVisitsNoChange ==
    (fx.pc = "ret" /\ EarlierVisits # {}) => NoChangeVisit

\* C29, amended: a visit of a file after visits that reported no error on
\* it reports no change and leaves the file and its backup as they were,
\* when neither -i nor -a holds a newline and the configuration is not -k
\* together with a non-empty -a or with an interpreter path holding " -".
C29_LaterVisitsNoChangeAfterSuccess ==
    (/\ fx.pc = "ret"
     /\ EarlierVisits # {}
     /\ ~ErrorOnFile
     /\ NoNewline(NEW_INTERPRETER[1])
     /\ NoNewline(ADD_FLAGS)
     /\ ~Accumulates)
    => NoChangeVisit

\* d/sub/c.py was rewritten on the way through ld and found unchanged on
\* the way through d: it has its new line and c.py~ its old one
C29_Witness ==
    /\ fx.pc = "ret"
    /\ argv.args = <<P_ld, P_d>>
    /\ fx.filename = P_c
    /\ EarlierVisits # {}
    /\ NoChangeVisit
    /\ fs[P_c].data = <<"#", "!", " ">> \o I_python \o NL
    /\ fs[BackupName(P_c)].data = L_python_eof

\* the name is one the tool gives to its own files
OwnName(name) ==
    name # <<>> /\ (name[1] = "@" \/ name[Len(name)] = "~")

\* C30: the names of the backups and of the temp files are no candidate
\* names: for every name of a listing, the name with a ~ after it and the
\* name with an @ before it do not match, and recursedown passes no file
\* to fix whose name ends with ~ or begins with @.
C30_OwnFilesNoCandidates ==
    \A k \in 1..Len(trace) :
        /\ (trace[k].op = "fix" /\ ~trace[k].top) => ~OwnName(Last(trace[k].path))
        /\ trace[k].op = "list" =>
              \A i \in 1..Len(trace[k].names) :
                  LET name == trace[k].names[i]
                  IN  /\ ~ispython(name \o <<"~">>)
                      /\ ~ispython(<<"@">> \o name)
                      /\ OwnName(name) => ~ispython(name)

\* d/sub was listed with a backup and a temp file of c.py in it, left by
\* the first visit, and the run ended without a call of fix on them
C30_Witness ==
    /\ pc = "exited"
    /\ \E k \in 1..Len(trace) :
          /\ trace[k].op = "list"
          /\ \E i, j \in 1..Len(trace[k].names) :
                /\ trace[k].names[i] = <<"@">> \o N_c_py
                /\ trace[k].names[j] = N_c_py \o <<"~">>
    /\ \A k \in 1..Len(trace) : trace[k].op = "fix" => ~OwnName(Last(trace[k].path))

====
